---- MODULE Spec2Model ----
(***************************************************************************)
(* State-machine model of the console back office: the publish-to-square   *)
(* approval pipeline, the RBAC role / menu services, the API key service,  *)
(* account creation and initialization, magic-link login, the operation    *)
(* log decorator and the RAG workflow node.  Each handler is one action;   *)
(* the relational store is the state.  Python values that have no TLA+     *)
(* counterpart are encoded as:                                             *)
(*   Optional[row]  -> <<>> (None) or <<row>>                              *)
(*   typed scalars  -> [t |-> "str" | "int", v |-> n]   (see PyEq)         *)
(***************************************************************************)
EXTENDS Integers, Sequences, FiniteSets, TLC

VARIABLES
    publish_application,          \* table publish_application, row id = index
    publish_application_history,  \* table publish_application_history (append order)
    system_notification,          \* table system_notification, row id = index
    publish_workflows,            \* table publish_workflows
    publish_app_model_configs,    \* table publish_app_model_configs
    workflows,                    \* table workflows: id -> [publish_square]
    app_model_configs,            \* table app_model_configs: id -> [publish_square]
    menus,                        \* table menus: id -> row
    roles,                        \* table roles: id -> row
    account_roles,                \* table account_roles: set of rows
    role_menus,                   \* table role_menus: set of rows
    role_resources,               \* table role_resources: set of rows
    api_keys,                     \* table api_keys: sequence of rows
    accounts,                     \* table accounts: sequence of rows, row id = index
    invitation_codes,             \* table invitation_codes: code -> row
    requests,                     \* requests in flight: request -> its position and locals
    token_pairs,                  \* access / refresh token pairs issued by AccountService.login
    operation_logs,               \* the operation log table (append order)
    change_email_tokens,          \* TokenManager entries of type change_email: token -> data
    agent_mode,                   \* agent_mode.tools of the app's current app model config
    tenants,                      \* table tenants: id -> row
    tenant_account_joins,         \* table tenant_account_joins: set of rows
    loaded_account,               \* an Account object in memory: current tenant and role
    resp                          \* the last request and what the handler returned / raised

pubVars == <<publish_application, publish_application_history, system_notification,
             publish_workflows, publish_app_model_configs, workflows, app_model_configs>>

rbacVars == <<menus, roles, account_roles, role_menus, role_resources>>

extVars == <<accounts, invitation_codes, requests, token_pairs, operation_logs>>

ssoVars == <<tenants, tenant_account_joins, loaded_account>>

auxVars == <<change_email_tokens, agent_mode, ssoVars>>

vars == <<pubVars, rbacVars, api_keys, extVars, auxVars, resp>>

\* Tables that hold no row.
NoPublish ==
    /\ publish_application = <<>>
    /\ publish_application_history = <<>>
    /\ system_notification = <<>>
    /\ publish_workflows = <<>>
    /\ publish_app_model_configs = <<>>
    /\ workflows = <<>>
    /\ app_model_configs = <<>>

NoRbac ==
    /\ menus = <<>>
    /\ roles = <<>>
    /\ account_roles = {}
    /\ role_menus = {}
    /\ role_resources = {}

NoExt ==
    /\ accounts = <<>>
    /\ invitation_codes = <<>>
    /\ requests = <<>>
    /\ token_pairs = <<>>
    /\ operation_logs = <<>>

NoSso ==
    /\ tenants = <<>>
    /\ tenant_account_joins = {}
    /\ loaded_account = <<>>

NoAux ==
    /\ change_email_tokens = <<>>
    /\ agent_mode = <<>>
    /\ NoSso

----------------------------------------------------------------------------
(* Bounds                                                                  *)

MaxApplications == 2
MaxNotifications == 3

----------------------------------------------------------------------------
(* Enumerations of models/publish.py                                       *)

PyInt(n) == [t |-> "int", v |-> n]
PyStr(n) == [t |-> "str", v |-> n]      \* the string whose digits spell n

\* Python ==: an int (IntEnum member) never equals a str, whatever it spells.
PyEq(a, b) == a.t = b.t /\ a.v = b.v

\* What an Integer column hands back after the row went through the database.
IntegerColumn(x) == PyInt(x.v)

ApplyAppType == [WORKFLOW |-> PyInt(1), AGENT |-> PyInt(2)]

APPLYING == 1
COMPLETED == 4
REJECTED == 5

SUBMIT == "SUBMIT"
APPROVE == "APPROVE"
REJECT == "REJECT"

APPROVAL_TODO == 2
APPROVAL_RESULT == 3

----------------------------------------------------------------------------
(* Request domains                                                         *)

Accounts == {"u1", "u2", "u3"}
Editors == {"u1", "u2"}
is_editor(u) == u \in Editors

WorkflowIds == {"w1"}          \* workflow versions of the app that exist
AgentIds == {"c1"}             \* agent (app model config) versions that exist
VersionIds == WorkflowIds \cup AgentIds
ApplyAppTypeArgs == {PyStr(1), PyStr(2)}   \* reqparse type=str

\* Steps of the approve branch at which an exception can be raised (0: none).
ApproveSteps == 0 .. 6

----------------------------------------------------------------------------
(* The store seen through one SQLAlchemy Session                           *)

DB == [pa    |-> publish_application,
       hist  |-> publish_application_history,
       notif |-> system_notification,
       pw    |-> publish_workflows,
       pamc  |-> publish_app_model_configs,
       wf    |-> workflows,
       amc   |-> app_model_configs]

\* with Session(db.engine, expire_on_commit=False) as session:
\*   db  = what is committed, cur = what the session sees, exc = an exception
\*   is propagating through the with-block.
Session(db) == [db |-> db, cur |-> db, exc |-> FALSE]

\* A statement is not executed once an exception propagates (s.exc).
commit(s) == IF s.exc THEN s ELSE [s EXCEPT !.db = s.cur]

\* Leaving the with-block closes the session: uncommitted work is rolled back.
close(s) == s.db

\* The next statement raises when cond holds.
RaiseIf(s, cond) == IF ~s.exc /\ cond THEN [s EXCEPT !.exc = TRUE] ELSE s

\* Statement number k of a block raises when the injected fault is k.
Step(s, k, fault) == RaiseIf(s, fault = k)

----------------------------------------------------------------------------
(* PublishApplicationService                                               *)

create(s, account, status, apply_app_version_id, apply_app_type) ==
    IF s.exc THEN s ELSE
    [s EXCEPT !.cur.pa = Append(@, [applicant_id |-> account,
                                    status |-> status,
                                    apply_app_version_id |-> apply_app_version_id,
                                    apply_app_type |-> IntegerColumn(apply_app_type)])]

get_by_id(s, application_id) ==
    IF application_id \in DOMAIN s.cur.pa THEN <<s.cur.pa[application_id]>> ELSE <<>>

update_commits(s, application_id, status) ==
    IF s.exc THEN s ELSE
    commit([s EXCEPT !.cur.pa[application_id].status = status])

\* The caller has looked the application up before; a missing row raises.
update(s, application_id, status) ==
    IF s.exc THEN s ELSE
    IF get_by_id(s, application_id) = <<>>
    THEN RaiseIf(s, TRUE)
    ELSE [s EXCEPT !.cur.pa[application_id].status = status]

add_history(s, application_id, action, operator_id, to_status) ==
    IF s.exc THEN s ELSE
    [s EXCEPT !.cur.hist = Append(@, [application_id |-> application_id,
                                      action |-> action,
                                      operator_id |-> operator_id,
                                      to_status |-> to_status])]

\* title / content are kept as the outcome they announce and the
\* application id the content text quotes.
create_notification(s, account_id, role, msg_type, title, about, application_id) ==
    IF s.exc THEN s ELSE
    [s EXCEPT !.cur.notif = Append(@, [account_id |-> account_id,
                                       role |-> role,
                                       msg_type |-> msg_type,
                                       title |-> title,
                                       content |-> about,
                                       application_id |-> application_id,
                                       is_deal |-> FALSE])]

get_notification(s, notification_id) ==
    IF notification_id \in DOMAIN s.cur.notif THEN <<notification_id>> ELSE <<>>

\* WorkflowService.get_published_workflow_by_id / AppModelConfigService.
\* get_published_agent_by_id: the row of that id under the app, or None.
get_published_workflow_by_id(s, workflow_id) ==
    IF workflow_id \in DOMAIN s.cur.wf THEN <<workflow_id>> ELSE <<>>

get_published_agent_by_id(s, agent_id) ==
    IF agent_id \in DOMAIN s.cur.amc THEN <<agent_id>> ELSE <<>>

----------------------------------------------------------------------------
(* What a handler hands back: the committed store and the HTTP outcome.    *)
(* result is the "result" field of the JSON body, or "raise" when the      *)
(* handler let an exception escape; message tells the cases apart.         *)

Return(db, result, message) == [db |-> db, result |-> result, message |-> message]
Raise(db, exception) == [db |-> db, result |-> "raise", message |-> exception]

\* Leaving the with-block: the exception escapes, or the success body is returned.
Outcome(s, exception) ==
    IF s.exc THEN Raise(close(s), exception) ELSE Return(close(s), "success", "none")

----------------------------------------------------------------------------
(* Published2SquareApi.post  (POST /apps/{app_id}/publish/square/submit)   *)

Published2SquareApi_post(db, current_user, apply_app_type, selected_workflow_agent_id) ==
    LET s0 == Session(db)
        workflow_missing ==
            /\ PyEq(apply_app_type, ApplyAppType.WORKFLOW)
            /\ get_published_workflow_by_id(s0, selected_workflow_agent_id) = <<>>
        agent_missing ==
            /\ PyEq(apply_app_type, ApplyAppType.AGENT)
            /\ get_published_agent_by_id(s0, selected_workflow_agent_id) = <<>>
    IN  IF workflow_missing \/ agent_missing
        THEN Return(db, "fail", "version_deleted")
        ELSE
        LET s1 == create(s0, current_user, APPLYING, selected_workflow_agent_id, apply_app_type)
            application_id == Len(db.pa) + 1     \* application.id after the flush
            s2 == add_history(s1, application_id, SUBMIT, current_user, APPLYING)
            s3 == create_notification(s2, <<>>, <<"admin", "owner">>, APPROVAL_TODO,
                                      "approval_request", "none", application_id)
            s4 == commit(s3)
        IN  Return(close(s4), "success", "none")

----------------------------------------------------------------------------
(* Published2SquareSysApproveApi.post  (POST /apps/publish/square/sys-approve) *)

\* session.add(PublishWorkflow(..., workflow_id=application.apply_app_version_id))
add_publish_workflow(s, application) ==
    IF s.exc THEN s ELSE
    [s EXCEPT !.cur.pw = Append(@, [workflow_id |-> application.apply_app_version_id,
                                    created_by |-> application.applicant_id,
                                    enable |-> TRUE])]

\* session.add(PublishAppModelConfig(..., app_model_config_id=...))
add_publish_app_model_config(s, application) ==
    IF s.exc THEN s ELSE
    [s EXCEPT !.cur.pamc = Append(@, [app_model_config_id |-> application.apply_app_version_id,
                                      created_by |-> application.applicant_id,
                                      enable |-> TRUE])]

flag_workflow_matches_no_row(s, workflow_id) == s

\* session.query(Workflow).filter(Workflow.id == ...).update({"publish_square": True})
flag_workflow(s, workflow_id) ==
    IF ~s.exc /\ workflow_id \in DOMAIN s.cur.wf
    THEN [s EXCEPT !.cur.wf[workflow_id].publish_square = TRUE]
    ELSE s

\* session.query(AppModelConfig).filter(AppModelConfig.id == ...).update({...})
flag_app_model_config(s, config_id) ==
    IF ~s.exc /\ config_id \in DOMAIN s.cur.amc
    THEN [s EXCEPT !.cur.amc[config_id].publish_square = TRUE]
    ELSE s

\* Lines 287-307: the snapshot of a WORKFLOW application (statements 4, 5).
snapshot_workflow(s, application, fault) ==
    IF PyEq(application.apply_app_type, ApplyAppType.WORKFLOW)
    THEN flag_workflow(Step(add_publish_workflow(Step(s, 4, fault), application), 5, fault),
                       application.apply_app_version_id)
    ELSE s

\* Lines 309-347: the snapshot of an AGENT application (statements 4, 5).
snapshot_agent(s, application, fault) ==
    IF PyEq(application.apply_app_type, ApplyAppType.AGENT)
    THEN flag_app_model_config(
             Step(add_publish_app_model_config(Step(s, 4, fault), application), 5, fault),
             application.apply_app_version_id)
    ELSE s

\* Lines 250-352: the approve branch, one session, one commit at the end.
\* `application` is the object loaded by the lookup session (lines 157-158).
ApproveBranch(db, current_user, application_id, fault) ==
    LET application == db.pa[application_id]
        s1 == update(Step(Session(db), 1, fault), application_id, COMPLETED)
        s2 == add_history(Step(s1, 2, fault), application_id, APPROVE, current_user, COMPLETED)
        s3 == create_notification(Step(s2, 3, fault), <<application.applicant_id>>, <<>>,
                                  APPROVAL_RESULT, "approval_passed", "none", 0)
        s4 == snapshot_workflow(s3, application, fault)
        s5 == snapshot_agent(s4, application, fault)
        s6 == commit(Step(s5, 6, fault))
    IN  Outcome(s6, "Exception")

\* Lines 354-388: the reject branch.  history and notification take their
\* tenant from the local `workflow`, which only the WORKFLOW check binds.
RejectBranch(db, current_user, application_id, workflow_bound) ==
    LET application == db.pa[application_id]
        s1 == update(Session(db), application_id, REJECTED)
        s2 == add_history(RaiseIf(s1, ~workflow_bound), application_id, REJECT,
                          current_user, REJECTED)
        s3 == create_notification(s2, <<application.applicant_id>>, <<>>,
                                  APPROVAL_RESULT, "approval_rejected", "none", 0)
        s4 == commit(s3)
    IN  Outcome(s4, IF workflow_bound THEN "Exception" ELSE "UnboundLocalError")

\* Lines 389-397: mark the notification named by args["id"] as handled; not
\* reached when an exception has left the handler before.
MarkDeal(out, id) ==
    IF out.result # "raise" /\ id # 0 /\ id \in DOMAIN out.db.notif
    THEN [out EXCEPT !.db.notif[id].is_deal = TRUE]
    ELSE out

Published2SquareSysApproveApi_post(db, current_user, id, application_id, approve, fault) ==
    LET sA == Session(db)
        found == get_by_id(sA, application_id)
    IN  IF found = <<>>
        THEN \* lines 162-181: notify, commit, then application.apply_app_id on None
             LET s1 == commit(create_notification(sA, <<>>, <<"admin", "owner">>,
                                                  APPROVAL_RESULT, "approval_failed",
                                                  "application_missing", 0))
             IN  Raise(close(s1), "AttributeError")
        ELSE
        LET application == found[1]
            isWorkflow == PyEq(application.apply_app_type, ApplyAppType.WORKFLOW)
            isAgent == PyEq(application.apply_app_type, ApplyAppType.AGENT)
            version_missing ==
                \/ isWorkflow /\ get_published_workflow_by_id(sA, application.apply_app_version_id) = <<>>
                \/ isAgent /\ get_published_agent_by_id(sA, application.apply_app_version_id) = <<>>
        IN  IF version_missing
            THEN LET s1 == commit(create_notification(sA, <<application.applicant_id>>, <<>>,
                                                      APPROVAL_RESULT, "approval_failed",
                                                      "version_deleted", 0))
                 IN  MarkDeal(Return(close(s1), "fail", "version_deleted"), id)
            ELSE MarkDeal(IF approve
                          THEN ApproveBranch(close(sA), current_user, application_id, fault)
                          ELSE RejectBranch(close(sA), current_user, application_id, isWorkflow),
                          id)

----------------------------------------------------------------------------
(* Initial state and the actions of the publish pipeline                   *)

NoResp == [op |-> "none", application_id |-> 0, approve |-> FALSE,
           apply_app_type |-> 0, version |-> "none",
           result |-> "none", message |-> "none"]

PubInit ==
    /\ publish_application = <<>>
    /\ publish_application_history = <<>>
    /\ system_notification = <<>>
    /\ publish_workflows = <<>>
    /\ publish_app_model_configs = <<>>
    /\ workflows = [w \in WorkflowIds |-> [publish_square |-> FALSE]]
    /\ app_model_configs = [c \in AgentIds |-> [publish_square |-> FALSE]]

\* The committed store a handler leaves behind becomes the next state.
Install(db) ==
    /\ publish_application' = db.pa
    /\ publish_application_history' = db.hist
    /\ system_notification' = db.notif
    /\ publish_workflows' = db.pw
    /\ publish_app_model_configs' = db.pamc
    /\ workflows' = db.wf
    /\ app_model_configs' = db.amc

CurrentUsers == {u \in Accounts : is_editor(u)}   \* anyone else gets Forbidden

Submit ==
    /\ Len(publish_application) < MaxApplications
    /\ Len(system_notification) < MaxNotifications
    /\ \E current_user \in CurrentUsers, apply_app_type \in ApplyAppTypeArgs,
          version \in VersionIds :
         LET out == Published2SquareApi_post(DB, current_user, apply_app_type, version)
         IN  /\ Install(out.db)
             /\ UNCHANGED <<rbacVars, api_keys, extVars, auxVars>>
             /\ resp' = [NoResp EXCEPT !.op = "submit",
                                       !.apply_app_type = apply_app_type.v,
                                       !.version = version,
                                       !.result = out.result,
                                       !.message = out.message]

SysApproveResp(application_id, approve, out) ==
    [NoResp EXCEPT !.op = "sys_approve",
                   !.application_id = application_id,
                   !.approve = approve,
                   !.result = out.result,
                   !.message = out.message]

\* A sys-approve request that runs with no statement failing.
SysApprove ==
    /\ Len(system_notification) < MaxNotifications
    /\ \E current_user \in CurrentUsers, id \in {0} \cup DOMAIN system_notification,
          application_id \in 1 .. MaxApplications, approve \in BOOLEAN :
         LET out == Published2SquareSysApproveApi_post(DB, current_user, id, application_id,
                                                       approve, 0)
         IN  /\ Install(out.db)
             /\ UNCHANGED <<rbacVars, api_keys, extVars, auxVars>>
             /\ resp' = SysApproveResp(application_id, approve, out)

\* A sys-approve request with approve=true in which statement `fault` of the
\* approve branch raises (a database error, a failed attribute access).
SysApproveFails ==
    /\ Len(system_notification) < MaxNotifications
    /\ \E current_user \in CurrentUsers, application_id \in DOMAIN publish_application,
          fault \in ApproveSteps \ {0} :
         LET out == Published2SquareSysApproveApi_post(DB, current_user, 0, application_id,
                                                       TRUE, fault)
         IN  /\ Install(out.db)
             /\ UNCHANGED <<rbacVars, api_keys, extVars, auxVars>>
             /\ resp' = SysApproveResp(application_id, TRUE, out)

Init == PubInit /\ NoRbac /\ NoExt /\ NoAux /\ api_keys = <<>> /\ resp = NoResp

Next == Submit \/ SysApprove \/ SysApproveFails

Spec == Init /\ [][Next]_vars

----------------------------------------------------------------------------
(* Claims about the publish pipeline                                       *)

\* The actions recorded in the history ledger for application i, in order.
HistoryActions(hist, i) ==
    LET rows == SelectSeq(hist, LAMBDA h : h.application_id = i)
    IN  [k \in DOMAIN rows |-> rows[k].action]

\* rows is old plus exactly one appended row.
AppendedOne(old, rows) == Len(rows) = Len(old) + 1 /\ SubSeq(rows, 1, Len(old)) = old

\* Everything of the notification table except the handled flag.
Unflagged(notif) == [k \in DOMAIN notif |-> [notif[k] EXCEPT !.is_deal = FALSE]]

VersionExists(application) ==
    \/ /\ PyEq(application.apply_app_type, ApplyAppType.WORKFLOW)
       /\ application.apply_app_version_id \in DOMAIN workflows
    \/ /\ PyEq(application.apply_app_type, ApplyAppType.AGENT)
       /\ application.apply_app_version_id \in DOMAIN app_model_configs

\* C1: a status changes only from APPLYING, and only to COMPLETED or
\* REJECTED; a COMPLETED or REJECTED application keeps its status for ever.
C1_StatusIsTerminal ==
    [][\A i \in DOMAIN publish_application :
          publish_application'[i].status # publish_application[i].status
          => /\ publish_application[i].status = APPLYING
             /\ publish_application'[i].status \in {COMPLETED, REJECTED}]_vars

\* C2: approving a submitted, not yet decided WORKFLOW application whose
\* version exists, when no statement fails, succeeds and adds exactly
\* one PublishWorkflow row for its version, sets publish_square on the source
\* workflow, leaves the history SUBMIT, APPROVE, and the store holds the
\* APPROVAL_TODO notification to roles admin and owner and a new
\* APPROVAL_RESULT notification to the applicant.
C2_PublishRoundTrip ==
    [][\A i \in DOMAIN publish_application :
          ( /\ resp'.op = "sys_approve" /\ resp'.application_id = i
            /\ resp'.approve /\ resp'.result # "raise"
            /\ PyEq(publish_application[i].apply_app_type, ApplyAppType.WORKFLOW)
            /\ VersionExists(publish_application[i])
            /\ HistoryActions(publish_application_history, i) = <<SUBMIT>> )
          => LET version == publish_application[i].apply_app_version_id
                 n == Len(system_notification')
             IN  /\ resp'.result = "success"
                 /\ AppendedOne(publish_workflows, publish_workflows')
                 /\ publish_workflows'[Len(publish_workflows')].workflow_id = version
                 /\ publish_app_model_configs' = publish_app_model_configs
                 /\ workflows'[version].publish_square
                 /\ HistoryActions(publish_application_history', i) = <<SUBMIT, APPROVE>>
                 /\ \E k \in DOMAIN system_notification' :
                       /\ system_notification'[k].msg_type = APPROVAL_TODO
                       /\ system_notification'[k].role = <<"admin", "owner">>
                       /\ system_notification'[k].application_id = i
                 /\ n = Len(system_notification) + 1
                 /\ system_notification'[n].msg_type = APPROVAL_RESULT
                 /\ system_notification'[n].account_id
                       = <<publish_application[i].applicant_id>>]_vars

C2_Witness ==
    /\ resp.op = "sys_approve" /\ resp.approve /\ resp.result = "success"
    /\ resp.application_id \in DOMAIN publish_application
    /\ PyEq(publish_application[resp.application_id].apply_app_type, ApplyAppType.WORKFLOW)
    /\ HistoryActions(publish_application_history, resp.application_id) = <<SUBMIT, APPROVE>>
    /\ Len(publish_workflows) = 1
    /\ workflows[publish_application[resp.application_id].apply_app_version_id].publish_square

\* C3: a submit or sys-approve request whose version id names no workflow /
\* agent version answers {result: "fail"} and adds no snapshot row.
C3_MissingVersionSoftFails ==
    [][( \/ /\ resp'.op = "submit"
            /\ \/ resp'.apply_app_type = ApplyAppType.WORKFLOW.v
                  /\ resp'.version \notin DOMAIN workflows
               \/ resp'.apply_app_type = ApplyAppType.AGENT.v
                  /\ resp'.version \notin DOMAIN app_model_configs
         \/ /\ resp'.op = "sys_approve"
            /\ resp'.application_id \in DOMAIN publish_application
            /\ ~VersionExists(publish_application[resp'.application_id]) )
       => /\ resp'.result = "fail"
          /\ publish_workflows' = publish_workflows
          /\ publish_app_model_configs' = publish_app_model_configs]_vars

\* C4: sys-approve for an application id that names no application adds a
\* failure notification to roles admin and owner, answers {result: "fail"}
\* without raising, and changes no application, history or snapshot row.
C4_MissingApplicationSoftFails ==
    [][( /\ resp'.op = "sys_approve"
         /\ resp'.application_id \notin DOMAIN publish_application )
       => /\ resp'.result = "fail"
          /\ AppendedOne(Unflagged(system_notification), Unflagged(system_notification'))
          /\ system_notification'[Len(system_notification')].role = <<"admin", "owner">>
          /\ publish_application' = publish_application
          /\ publish_application_history' = publish_application_history
          /\ publish_workflows' = publish_workflows
          /\ publish_app_model_configs' = publish_app_model_configs]_vars

\* The five writes of one approval of application i, seen across a step.
ApprovalStatusWritten(i) == publish_application'[i].status = COMPLETED
ApprovalHistoryWritten(i) ==
    /\ AppendedOne(publish_application_history, publish_application_history')
    /\ LET h == publish_application_history'[Len(publish_application_history')]
       IN  h.application_id = i /\ h.action = APPROVE
ApprovalNotified(i) ==
    /\ AppendedOne(Unflagged(system_notification), Unflagged(system_notification'))
    /\ LET n == system_notification'[Len(system_notification')]
       IN  /\ n.title = "approval_passed"
           /\ n.account_id = <<publish_application[i].applicant_id>>
ApprovalSnapshotWritten(i) ==
    LET a == publish_application[i]
    IN  IF PyEq(a.apply_app_type, ApplyAppType.WORKFLOW)
        THEN /\ AppendedOne(publish_workflows, publish_workflows')
             /\ workflows'[a.apply_app_version_id].publish_square
        ELSE /\ AppendedOne(publish_app_model_configs, publish_app_model_configs')
             /\ app_model_configs'[a.apply_app_version_id].publish_square
NoApprovalWrite ==
    /\ publish_application' = publish_application
    /\ publish_application_history' = publish_application_history
    /\ publish_workflows' = publish_workflows
    /\ publish_app_model_configs' = publish_app_model_configs
    /\ workflows' = workflows
    /\ app_model_configs' = app_model_configs
    /\ \A k \in DOMAIN system_notification' :
          k \notin DOMAIN system_notification
          => system_notification'[k].title # "approval_passed"

\* C5: across every sys-approve request with approve=true the committed store
\* gains all writes of the approval (status, APPROVE history row, result
\* notification to the applicant, snapshot row, publish_square) or none.
C5_ApprovalAllOrNothing ==
    [][\A i \in DOMAIN publish_application :
          ( resp'.op = "sys_approve" /\ resp'.approve /\ resp'.application_id = i )
          => \/ /\ ApprovalStatusWritten(i)
                /\ ApprovalHistoryWritten(i)
                /\ ApprovalNotified(i)
                /\ ApprovalSnapshotWritten(i)
             \/ NoApprovalWrite]_vars

\* An approval failed partway and the application is still undecided.
C5_Witness ==
    /\ resp.op = "sys_approve" /\ resp.approve
    /\ resp.result = "raise" /\ resp.message = "Exception"
    /\ resp.application_id \in DOMAIN publish_application
    /\ publish_application[resp.application_id].status = APPLYING
    /\ HistoryActions(publish_application_history, resp.application_id) = <<SUBMIT>>

\* C6: rejecting an APPLYING application of either type whose version exists
\* sets REJECTED, appends one REJECT history row, notifies the applicant and
\* adds no snapshot row.
C6_RejectWrites ==
    [][\A i \in DOMAIN publish_application :
          ( /\ resp'.op = "sys_approve" /\ ~resp'.approve /\ resp'.application_id = i
            /\ publish_application[i].status = APPLYING
            /\ VersionExists(publish_application[i]) )
          => /\ publish_application'[i].status = REJECTED
             /\ AppendedOne(publish_application_history, publish_application_history')
             /\ LET h == publish_application_history'[Len(publish_application_history')]
                IN  h.application_id = i /\ h.action = REJECT
             /\ AppendedOne(Unflagged(system_notification), Unflagged(system_notification'))
             /\ LET n == system_notification'[Len(system_notification')]
                IN  /\ n.msg_type = APPROVAL_RESULT
                    /\ n.account_id = <<publish_application[i].applicant_id>>
             /\ publish_workflows' = publish_workflows
             /\ publish_app_model_configs' = publish_app_model_configs]_vars

----------------------------------------------------------------------------
(* MenuService (services/menu_service.py)                                  *)

MaxMenus == 3

MenuIds == 1 .. MaxMenus
MenuKeys == 1 .. MaxMenus         \* menu_key values, by number
None == 0                         \* Python None (falsy) for ids

\* The RBAC rows the services read and write through db.session.
RbacDB == [menus |-> menus, roles |-> roles, account_roles |-> account_roles,
           role_menus |-> role_menus, role_resources |-> role_resources]

MenuReturn(db, result) == [db |-> db, result |-> result, message |-> "none"]
MenuRaise(db, exception) == [db |-> db, result |-> "raise", message |-> exception]

\* server_default uuid_generate_v4(): an id that no stored row has.
new_menu_id(db) == CHOOSE id \in MenuIds \ DOMAIN db.menus :
                       \A other \in MenuIds \ DOMAIN db.menus : id <= other

Menu(menu_data) ==
    [menu_key |-> menu_data.menu_key,
     menu_name |-> menu_data.menu_name,
     parent_id |-> menu_data.parent_id,
     sort_order |-> menu_data.sort_order,
     is_active |-> menu_data.is_active]

\* menus with row id added or replaced.
put_menu(table, id, row) ==
    [k \in DOMAIN table \cup {id} |-> IF k = id THEN row ELSE table[k]]

create_menu(db, menu_data) ==
    IF \E id \in DOMAIN db.menus : db.menus[id].menu_key = menu_data.menu_key
    THEN MenuRaise(db, "Exception")
    ELSE IF menu_data.parent_id # None /\ menu_data.parent_id \notin DOMAIN db.menus
    THEN MenuRaise(db, "ValueError")
    ELSE MenuReturn([db EXCEPT !.menus = put_menu(@, new_menu_id(db), Menu(menu_data))],
                    "ok")

\* The while loop of _would_create_cycle, one iteration per call.
RECURSIVE walk_up(_, _, _, _)
walk_up(db, menu_id, current_id, visited) ==
    IF current_id = None \/ current_id \in visited THEN FALSE
    ELSE IF current_id = menu_id THEN TRUE
    ELSE walk_up(db, menu_id,
                 IF current_id \in DOMAIN db.menus
                 THEN db.menus[current_id].parent_id ELSE None,
                 visited \cup {current_id})

would_create_cycle_direct_only(db, menu_id, parent_id) == parent_id = menu_id

would_create_cycle(db, menu_id, parent_id) == walk_up(db, menu_id, parent_id, {})

\* menu_data is a dict holding some of the keys of a menu row.
update_menu(db, menu_id, menu_data) ==
    IF menu_id \notin DOMAIN db.menus THEN MenuRaise(db, "ValueError")
    ELSE
    LET menu == db.menus[menu_id]
        key_taken ==
            /\ "menu_key" \in DOMAIN menu_data
            /\ menu_data.menu_key # menu.menu_key
            /\ \E id \in DOMAIN db.menus \ {menu_id} :
                  db.menus[id].menu_key = menu_data.menu_key
        bad_parent ==
            /\ "parent_id" \in DOMAIN menu_data
            /\ menu_data.parent_id # None
            /\ \/ menu_data.parent_id = menu_id
               \/ menu_data.parent_id \notin DOMAIN db.menus
               \/ would_create_cycle(db, menu_id, menu_data.parent_id)
    IN  IF key_taken \/ bad_parent THEN MenuRaise(db, "ValueError")
        ELSE MenuReturn(
                 [db EXCEPT !.menus[menu_id] =
                     [f \in DOMAIN menu |->
                         IF f \in DOMAIN menu_data THEN menu_data[f] ELSE menu[f]]],
                 "ok")

\* delete_one_menu without the delete(RoleMenu) statement.
delete_one_menu_keeps_role_menus(db, menu_id) ==
    [db EXCEPT !.menus = [k \in DOMAIN db.menus \ {menu_id} |-> db.menus[k]]]

\* delete(RoleMenu) for the menu, delete the menu, commit.
delete_one_menu(db, menu_id) ==
    [db EXCEPT !.menus = [k \in DOMAIN db.menus \ {menu_id} |-> db.menus[k]],
               !.role_menus = {rm \in db.role_menus : rm.menu_id # menu_id}]

RECURSIVE delete_subtree(_, _)
\* delete_menu once the checks have passed: the children first (each by a
\* recursive delete_menu(child.id, cascade=True)), then the menu itself.
delete_subtree(db, menu_id) ==
    LET children == {c \in DOMAIN db.menus : db.menus[c].parent_id = menu_id}
    IN  IF children = {}
        THEN delete_one_menu(db, menu_id)
        ELSE delete_subtree(delete_subtree(db, CHOOSE c \in children :
                                                   \A o \in children : c <= o),
                            menu_id)

delete_menu(db, menu_id, cascade) ==
    IF menu_id \notin DOMAIN db.menus THEN MenuRaise(db, "ValueError")
    ELSE IF (\E c \in DOMAIN db.menus : db.menus[c].parent_id = menu_id) /\ ~cascade
    THEN MenuRaise(db, "ValueError")
    ELSE MenuReturn(delete_subtree(db, menu_id), "ok")

----------------------------------------------------------------------------
(* RoleService.assign_menus (services/role_service.py)                     *)

Tenants == {"t1", "t2"}
RoleIds == {"r1", "r2", "r3"}

RoleMenu(role_id, menu_id) == [role_id |-> role_id, menu_id |-> menu_id]

\* Replaces the menus of a role of the tenant by the active menus of menu_ids.
assign_menus(db, tenant_id, role_id, menu_ids) ==
    IF role_id \notin DOMAIN db.roles \/ db.roles[role_id].tenant_id # tenant_id
    THEN MenuRaise(db, "ValueError")
    ELSE LET valid_menu_ids == {id \in DOMAIN db.menus :
                                   id \in menu_ids /\ db.menus[id].is_active}
         IN  MenuReturn(
                 [db EXCEPT !.role_menus =
                     {rm \in @ : rm.role_id # role_id}
                     \cup {RoleMenu(role_id, id) : id \in valid_menu_ids}],
                 "ok")

----------------------------------------------------------------------------
(* The menu tree under sequential maintenance                              *)

\* parent_id: the parent an update_menu request asked for, if any.
MenuNoResp == [op |-> "none", menu_id |-> None, parent_id |-> None,
               result |-> "none", message |-> "none"]

InstallRbac(db) ==
    /\ menus' = db.menus
    /\ roles' = db.roles
    /\ account_roles' = db.account_roles
    /\ role_menus' = db.role_menus
    /\ role_resources' = db.role_resources

\* One role of tenant t1 whose menus are assigned while the tree changes.
MenuInit ==
    /\ NoPublish /\ NoExt /\ NoAux /\ api_keys = <<>>
    /\ menus = <<>>
    /\ roles = [r \in {"r1"} |-> [tenant_id |-> "t1", role_key |-> "editor"]]
    /\ account_roles = {}
    /\ role_menus = {}
    /\ role_resources = {}
    /\ resp = MenuNoResp

\* Keys a request can name: those of the stored menus and one that is free.
KeysInUse == {menus[id].menu_key : id \in DOMAIN menus}
FreeKey == CHOOSE k \in MenuKeys \ KeysInUse : \A o \in MenuKeys \ KeysInUse : k <= o

\* create_menu bodies: optional fields are left to their defaults.
CreateMenuData ==
    {[menu_key |-> k, menu_name |-> k, parent_id |-> p, sort_order |-> 0, is_active |-> TRUE] :
        k \in KeysInUse \cup {FreeKey}, p \in {None} \cup MenuIds}

\* update_menu bodies: a move under another parent, or a rename to a key in use.
UpdateMenuData ==
    [parent_id : {None} \cup MenuIds] \cup [menu_key : KeysInUse]

CreateMenu ==
    /\ Cardinality(DOMAIN menus) < MaxMenus
    /\ \E menu_data \in CreateMenuData :
         LET out == create_menu(RbacDB, menu_data)
         IN  /\ InstallRbac(out.db)
             /\ resp' = [MenuNoResp EXCEPT !.op = "create_menu",
                                           !.result = out.result, !.message = out.message]
    /\ UNCHANGED <<pubVars, api_keys, extVars, auxVars>>

UpdateMenu ==
    /\ \E menu_id \in MenuIds, menu_data \in UpdateMenuData :
         LET out == update_menu(RbacDB, menu_id, menu_data)
         IN  /\ InstallRbac(out.db)
             /\ resp' = [MenuNoResp EXCEPT !.op = "update_menu", !.menu_id = menu_id,
                                           !.parent_id =
                                               IF "parent_id" \in DOMAIN menu_data
                                               THEN menu_data.parent_id ELSE None,
                                           !.result = out.result, !.message = out.message]
    /\ UNCHANGED <<pubVars, api_keys, extVars, auxVars>>

DeleteMenu ==
    /\ \E menu_id \in MenuIds, cascade \in BOOLEAN :
         LET out == delete_menu(RbacDB, menu_id, cascade)
         IN  /\ InstallRbac(out.db)
             /\ resp' = [MenuNoResp EXCEPT !.op = "delete_menu",
                                           !.result = out.result, !.message = out.message]
    /\ UNCHANGED <<pubVars, api_keys, extVars, auxVars>>

AssignMenus ==
    /\ \E role_id \in DOMAIN roles, menu_ids \in {{}, MenuIds} :
         LET out == assign_menus(RbacDB, "t1", role_id, menu_ids)
         IN  /\ InstallRbac(out.db)
             /\ resp' = [MenuNoResp EXCEPT !.op = "assign_menus",
                                           !.result = out.result, !.message = out.message]
    /\ UNCHANGED <<pubVars, api_keys, extVars, auxVars>>

MenuNext == CreateMenu \/ UpdateMenu \/ DeleteMenu \/ AssignMenus

MenuSpec == MenuInit /\ [][MenuNext]_vars

----------------------------------------------------------------------------
(* MenuService.get_user_menus and build_menu_tree                          *)

AccountRole(tenant_id, account_id, role_id) ==
    [tenant_id |-> tenant_id, account_id |-> account_id, role_id |-> role_id]

\* Query.distinct(): one result row per menu, whichever RoleMenu row joined it.
distinct_omitted(rows) == rows

distinct(rows) == {[menu_id |-> r.menu_id, role_id |-> "any"] : r \in rows}

RECURSIVE order_by_sort_order(_, _)
\* ORDER BY menus.sort_order of a result set; rows of equal sort_order come in
\* an order the database picks.
order_by_sort_order(db, rows) ==
    IF rows = {} THEN <<>>
    ELSE LET first == CHOOSE r \in rows : \A o \in rows :
                          db.menus[r.menu_id].sort_order <= db.menus[o.menu_id].sort_order
         IN  <<first>> \o order_by_sort_order(db, rows \ {first})

\* Menu.to_dict() of a result row.
to_dict(db, row) ==
    [id |-> row.menu_id,
     parent_id |-> db.menus[row.menu_id].parent_id,
     sort_order |-> db.menus[row.menu_id].sort_order,
     menu_name |-> db.menus[row.menu_id].menu_name]

\* menu_dict = {menu['id']: menu for menu in menus}: the last entry of an id.
menu_dict(menu_list, id) ==
    LET at == {k \in DOMAIN menu_list : menu_list[k].id = id}
    IN  IF at = {} THEN 0 ELSE CHOOSE k \in at : \A o \in at : o <= k

\* The entry (by position) under which entry k is appended; 0 for tree.append.
attached_to(menu_list, k) ==
    IF menu_list[k].parent_id # None THEN menu_dict(menu_list, menu_list[k].parent_id) ELSE 0

\* nodes.sort(key=lambda x: (x['sort_order'], x['menu_name'])): stable.
sort_key_less(a, b) ==
    \/ a.sort_order < b.sort_order
    \/ a.sort_order = b.sort_order /\ a.menu_name < b.menu_name

RECURSIVE sort_nodes(_, _)
sort_nodes(menu_list, nodes) ==
    IF nodes = <<>> THEN <<>>
    ELSE LET k == CHOOSE i \in DOMAIN nodes :
                      /\ \A j \in DOMAIN nodes :
                            ~sort_key_less(menu_list[nodes[j]], menu_list[nodes[i]])
                      /\ \A j \in 1 .. i - 1 :
                            sort_key_less(menu_list[nodes[i]], menu_list[nodes[j]])
         IN  <<nodes[k]>> \o
             sort_nodes(menu_list, SubSeq(nodes, 1, k - 1) \o SubSeq(nodes, k + 1, Len(nodes)))

\* The tree over the positions of menu_list: its roots and every entry's children.
build_menu_tree(menu_list) ==
    LET under(p) == SelectSeq([k \in DOMAIN menu_list |-> k],
                              LAMBDA k : attached_to(menu_list, k) = p)
    IN  [menus |-> menu_list,
         tree |-> sort_nodes(menu_list, under(0)),
         children |-> [p \in DOMAIN menu_list |-> sort_nodes(menu_list, under(p))]]

get_user_menus(db, tenant_id, account_id, include_inactive) ==
    LET user_roles == {ur \in db.account_roles :
                          ur.tenant_id = tenant_id /\ ur.account_id = account_id}
        role_ids == {ur.role_id : ur \in user_roles}
        joined == {rm \in db.role_menus :
                      rm.menu_id \in DOMAIN db.menus /\ rm.role_id \in role_ids}
        filtered == {r \in distinct(joined) :
                        include_inactive \/ db.menus[r.menu_id].is_active}
        rows == order_by_sort_order(db, filtered)
    IN  IF user_roles = {} THEN build_menu_tree(<<>>)
        ELSE build_menu_tree([k \in DOMAIN rows |-> to_dict(db, rows[k])])

----------------------------------------------------------------------------
(* Claims about the menu tree                                              *)

RECURSIVE AncestorsWithin(_, _, _)
\* The menus reached from id by following parent_id between 1 and n times.
AncestorsWithin(table, id, n) ==
    IF n = 0 \/ id \notin DOMAIN table THEN {}
    ELSE IF table[id].parent_id = None THEN {}
    ELSE {table[id].parent_id} \cup AncestorsWithin(table, table[id].parent_id, n - 1)

ProperAncestors(table, id) == AncestorsWithin(table, id, Cardinality(DOMAIN table))

AcyclicMenus == \A id \in DOMAIN menus : id \notin ProperAncestors(menus, id)

----------------------------------------------------------------------------
(* Menu resolution for a user: get_user_menus over the stores it can meet  *)

UserMenuIds == {1, 2, 3}

\* Menu tables over UserMenuIds: any parent pointers, any active flags.
UserMenuTables ==
    {[id \in UserMenuIds |->
         [menu_key |-> id, menu_name |-> id, parent_id |-> parent[id],
          sort_order |-> id % 2, is_active |-> active[id]]] :
        parent \in [UserMenuIds -> {None} \cup UserMenuIds],
        active \in [UserMenuIds -> BOOLEAN]}

\* Roles r1 and r2 of tenant t1 and r3 of tenant t2; account a1 may hold any of
\* them, a2 holds r2; r3 is linked to every menu.
UserMenusInit ==
    /\ NoPublish /\ NoExt /\ NoAux /\ api_keys = <<>>
    /\ menus \in UserMenuTables
    /\ AcyclicMenus
    /\ roles = [r \in RoleIds |-> [tenant_id |-> IF r = "r3" THEN "t2" ELSE "t1",
                                   role_key |-> r]]
    /\ \E held \in SUBSET RoleIds :
          account_roles = {AccountRole(roles[r].tenant_id, "a1", r) : r \in held}
                          \cup {AccountRole("t1", "a2", "r2")}
    /\ \E linked \in SUBSET ({"r1", "r2"} \X UserMenuIds) :
          role_menus = {RoleMenu(l[1], l[2]) : l \in linked}
                       \cup {RoleMenu("r3", m) : m \in UserMenuIds}
    /\ role_resources = {}
    /\ resp = [op |-> "none"]

GetUserMenus ==
    /\ \E include_inactive \in BOOLEAN :
          resp' = [op |-> "get_user_menus", tenant_id |-> "t1", account_id |-> "a1",
                   include_inactive |-> include_inactive,
                   out |-> get_user_menus(RbacDB, "t1", "a1", include_inactive)]
    /\ UNCHANGED <<pubVars, rbacVars, api_keys, extVars, auxVars>>

UserMenusNext == GetUserMenus

UserMenusSpec == UserMenusInit /\ [][UserMenusNext]_vars

----------------------------------------------------------------------------
(* Claims about menu resolution                                            *)

RECURSIVE Flatten(_, _)
\* The ids of the tree's nodes in depth-first order, children included.
Flatten(out, nodes) ==
    IF nodes = <<>> THEN <<>>
    ELSE <<out.menus[Head(nodes)].id>> \o Flatten(out, out.children[Head(nodes)])
         \o Flatten(out, Tail(nodes))

\* The menus linked by RoleMenu to a role the account holds in the tenant.
GrantedMenus(tenant_id, account_id) ==
    {m \in DOMAIN menus :
        \E ar \in account_roles :
            /\ ar.tenant_id = tenant_id /\ ar.account_id = account_id
            /\ RoleMenu(ar.role_id, m) \in role_menus}

ExactlyOnce(flat, ids) ==
    /\ {flat[k] : k \in DOMAIN flat} = ids
    /\ Len(flat) = Cardinality(ids)

----------------------------------------------------------------------------
(* RoleService / RoleAccountService called by the console of one tenant    *)

\* tenant_account_joins, which these services only read: a1 is a member of
\* both tenants, a2 of t1.
TenantAccountJoins == {<<"t1", "a1">>, <<"t2", "a1">>, <<"t1", "a2">>}

ResourceIds == {"d1"}

RoleResource(tenant_id, role_id, resource_id, resource_type) ==
    [tenant_id |-> tenant_id, role_id |-> role_id, resource_id |-> resource_id,
     resource_type |-> resource_type, is_active |-> TRUE]

delete_role(db, tenant_id, role_id, force) ==
    IF role_id \notin DOMAIN db.roles \/ db.roles[role_id].tenant_id # tenant_id
    THEN MenuRaise(db, "ValueError")
    ELSE
    LET held == {ar \in db.account_roles :
                    ar.tenant_id = tenant_id /\ ar.role_id = role_id}
    IN  IF held # {} /\ ~force THEN MenuRaise(db, "ValueError")
        \* fk_role_resources_role_id refuses the delete of a referenced role
        ELSE IF \E rr \in db.role_resources : rr.role_id = role_id
        THEN MenuRaise(db, "IntegrityError")
        ELSE MenuReturn(
                 [db EXCEPT !.account_roles = @ \ held,
                            !.role_menus = {rm \in @ : rm.role_id # role_id},
                            !.roles = [r \in DOMAIN @ \ {role_id} |-> @[r]]],
                 "ok")

add_account_to_role(db, tenant_id, role_id, account_id) ==
    IF role_id \notin DOMAIN db.roles \/ db.roles[role_id].tenant_id # tenant_id
    THEN MenuRaise(db, "ValueError")
    ELSE IF <<tenant_id, account_id>> \notin TenantAccountJoins
    THEN MenuRaise(db, "ValueError")
    ELSE IF AccountRole(tenant_id, account_id, role_id) \in db.account_roles
    THEN MenuReturn(db, "already")
    ELSE MenuReturn(
             [db EXCEPT !.account_roles =
                 {ar \in @ : ~(ar.tenant_id = tenant_id /\ ar.account_id = account_id)}
                 \cup {AccountRole(tenant_id, account_id, role_id)}],
             "ok")

\* update_resource_authorization whose delete does not filter on resource_type.
update_resource_authorization_any_type(db, tenant_id, request) ==
    LET ids == request.authorized_resource_ids
        kept == {rr \in db.role_resources :
                    ~(rr.tenant_id = tenant_id /\ rr.role_id = request.role_id)}
        added == {RoleResource(tenant_id, request.role_id, ids[k], request.resource_type) :
                     k \in DOMAIN ids}
        refused == \/ Cardinality(added) # Len(ids)
                   \/ added # {} /\ request.role_id \notin DOMAIN db.roles
    IN  IF refused THEN MenuRaise(db, "IntegrityError")
        ELSE MenuReturn([db EXCEPT !.role_resources = kept \cup added], "ok")

\* request: [role_id, resource_type, authorized_resource_ids (a list)].
update_resource_authorization(db, tenant_id, request) ==
    LET ids == request.authorized_resource_ids
        kept == {rr \in db.role_resources :
                    ~(/\ rr.tenant_id = tenant_id
                      /\ rr.role_id = request.role_id
                      /\ rr.resource_type = request.resource_type)}
        added == {RoleResource(tenant_id, request.role_id, ids[k], request.resource_type) :
                     k \in DOMAIN ids}
        \* flush: uk_role_resources_tenant_role_resource, fk_role_resources_role_id
        refused == \/ Cardinality(added) # Len(ids)
                   \/ added # {} /\ request.role_id \notin DOMAIN db.roles
    IN  IF refused THEN MenuRaise(db, "IntegrityError")
        ELSE MenuReturn([db EXCEPT !.role_resources = kept \cup added], "ok")

get_user_authorized_menu_ids(db, role_id, include_inactive) ==
    {rm.menu_id : rm \in {x \in db.role_menus :
        /\ x.role_id = role_id
        /\ include_inactive
           \/ (x.menu_id \in DOMAIN db.menus /\ db.menus[x.menu_id].is_active)}}

\* The menu tree, every entry carrying is_authorized for the role.
get_menu_tree_with_authorization(db, role_id, include_inactive) ==
    LET rows == order_by_sort_order(db,
                    {[menu_id |-> m] : m \in {x \in DOMAIN db.menus :
                                                 include_inactive \/ db.menus[x].is_active}})
        authorized_menu_ids == get_user_authorized_menu_ids(db, role_id, include_inactive)
    IN  build_menu_tree(
            [k \in DOMAIN rows |->
                to_dict(db, rows[k])
                @@ [is_authorized |-> rows[k].menu_id \in authorized_menu_ids]])

\* Without search terms, on a page that holds every member: each member of the
\* tenant with the roles its AccountRole rows join to (role_name kept as the id).
search_authorized_person(db, tenant_id) ==
    LET page_account_ids == {j[2] : j \in {x \in TenantAccountJoins : x[1] = tenant_id}}
    IN  [account_id \in page_account_ids |->
            {ar.role_id : ar \in {x \in db.account_roles :
                x.account_id = account_id /\ x.role_id \in DOMAIN db.roles}}]

----------------------------------------------------------------------------
(* One role per tenant, one menu, one dataset                              *)

RbacNoResp == [op |-> "none", tenant_id |-> "none", role_id |-> "none",
               result |-> "none", message |-> "none", out |-> <<>>]

RbacInit ==
    /\ NoPublish /\ NoExt /\ NoAux /\ api_keys = <<>>
    /\ menus = [id \in {1} |-> [menu_key |-> 1, menu_name |-> 1, parent_id |-> None,
                                 sort_order |-> 0, is_active |-> TRUE]]
    /\ roles = [r \in {"r1", "r3"} |->
                   [tenant_id |-> IF r = "r3" THEN "t2" ELSE "t1", role_key |-> r]]
    /\ account_roles = {}
    /\ role_menus = {}
    /\ role_resources = {}
    /\ resp = RbacNoResp

\* A write request of tenant_id against role_id, answered by out.
RbacWrite(op, tenant_id, role_id, out) ==
    /\ InstallRbac(out.db)
    /\ resp' = [RbacNoResp EXCEPT !.op = op, !.tenant_id = tenant_id, !.role_id = role_id,
                                  !.result = out.result, !.message = out.message]
    /\ UNCHANGED <<pubVars, api_keys, extVars, auxVars>>

\* A read request of tenant_id, answered with the data out.
RbacRead(op, tenant_id, role_id, out) ==
    /\ resp' = [RbacNoResp EXCEPT !.op = op, !.tenant_id = tenant_id, !.role_id = role_id,
                                  !.result = "ok", !.out = out]
    /\ UNCHANGED <<pubVars, rbacVars, api_keys, extVars, auxVars>>

RoleAssignMenus ==
    \E tenant_id \in Tenants, role_id \in RoleIds, menu_ids \in SUBSET {1} :
        RbacWrite("assign_menus", tenant_id, role_id,
                  assign_menus(RbacDB, tenant_id, role_id, menu_ids))

DeleteRole ==
    \E tenant_id \in Tenants, role_id \in RoleIds, force \in BOOLEAN :
        RbacWrite("delete_role", tenant_id, role_id,
                  delete_role(RbacDB, tenant_id, role_id, force))

AddAccountToRole ==
    \E tenant_id \in Tenants, role_id \in RoleIds, account_id \in {"a1", "a2"} :
        RbacWrite("add_account_to_role", tenant_id, role_id,
                  add_account_to_role(RbacDB, tenant_id, role_id, account_id))

UpdateResourceAuthorization ==
    \E tenant_id \in Tenants, role_id \in RoleIds,
       ids \in {<<>>, <<"d1">>, <<"d1", "d1">>} :
        RbacWrite("update_resource_authorization", tenant_id, role_id,
                  update_resource_authorization(RbacDB, tenant_id,
                      [role_id |-> role_id, resource_type |-> "dataset",
                       authorized_resource_ids |-> ids]))

\* RoleMenusApi.get: the role id of the URL goes to the service as it comes.
GetMenuTreeWithAuthorization ==
    \E tenant_id \in Tenants, role_id \in RoleIds, include_tree \in BOOLEAN :
        RbacRead("get_menu_tree_with_authorization", tenant_id, role_id,
                 get_menu_tree_with_authorization(RbacDB, role_id, include_tree))

SearchAuthorizedPerson ==
    \E tenant_id \in Tenants :
        RbacRead("search_authorized_person", tenant_id, "none",
                 search_authorized_person(RbacDB, tenant_id))

RbacNext ==
    \/ RoleAssignMenus \/ DeleteRole \/ AddAccountToRole \/ UpdateResourceAuthorization
    \/ GetMenuTreeWithAuthorization \/ SearchAuthorizedPerson

RbacSpec == RbacInit /\ [][RbacNext]_vars

----------------------------------------------------------------------------
(* Claims about tenant scoping                                             *)

\* Rows of a table that a step added or removed.
Touched(old, new) == (old \ new) \cup (new \ old)

RoleOfTenant(role_id, tenant_id) ==
    role_id \in DOMAIN roles /\ roles[role_id].tenant_id = tenant_id

\* C7: a RoleService / RoleAccountService request of tenant T adds, changes
\* and removes only Role, AccountRole, RoleMenu and RoleResource rows of
\* roles of T, and returns no authorization or role of a role outside T.
C7_TenantScoped ==
    [][LET T == resp'.tenant_id
       IN  /\ \A row \in Touched(account_roles, account_roles')
                         \cup Touched(role_menus, role_menus')
                         \cup Touched(role_resources, role_resources') :
                 RoleOfTenant(row.role_id, T)
           /\ \A r \in DOMAIN roles \ DOMAIN roles' : RoleOfTenant(r, T)
           /\ resp'.op = "get_menu_tree_with_authorization"
              => \A k \in DOMAIN resp'.out.menus :
                    resp'.out.menus[k].is_authorized => RoleOfTenant(resp'.role_id, T)
           /\ resp'.op = "search_authorized_person"
              => \A a \in DOMAIN resp'.out : \A r \in resp'.out[a] : RoleOfTenant(r, T)]_vars

----------------------------------------------------------------------------
(* ApiKeyService.create_api_key (services/api_key_service.py)              *)

max_attempts == 10

Keys == {"k1", "k2"}              \* values ApiKey.generate_key() can return

\* apps, which the service only reads.
Apps == {[id |-> "app1", tenant_id |-> "t1", mode |-> "workflow"],
         [id |-> "app2", tenant_id |-> "t1", mode |-> "agent-chat"]}

\* The static methods the class defines for create_api_key to call, with the
\* number of positional parameters each declares.
ApiKeyServiceMethods == [x \in {"_validate_resource_exists"} |-> 4]
                        @@ [x \in {"_generate_unique_key"} |-> 1]

\* self.<name>(<nargs arguments>): what the call raises before the body runs.
call_error(name, nargs) ==
    IF name \notin DOMAIN ApiKeyServiceMethods THEN "AttributeError"
    ELSE IF ApiKeyServiceMethods[name] # nargs THEN "TypeError"
    ELSE "none"

\* Body of _validate_resource_exists: TRUE when it raises.
resource_missing(tenant_id, resource_type, resource_id) ==
    /\ resource_type \in {"agent", "workflow"}
    /\ ~\E app \in Apps :
          /\ app.id = resource_id /\ app.tenant_id = tenant_id
          /\ app.mode = IF resource_type = "agent" THEN "agent-chat" ELSE "workflow"

\* Body of _generate_unique_key: the first of max_attempts candidates that no
\* stored row has, <<>> when every one of them is taken.
generate_unique_key(table, candidates) ==
    LET free == {k \in 1 .. max_attempts :
                    ~\E i \in DOMAIN table : table[i].key = candidates[k]}
    IN  IF free = {} THEN <<>>
        ELSE <<candidates[CHOOSE k \in free : \A o \in free : k <= o]>>

ApiKeyRaise(table, exception) == [table |-> table, result |-> "raise", message |-> exception]

create_api_key(table, tenant_id, resource_type, resource_id, candidates) ==
    IF resource_type \notin {"agent-chat", "workflow"}
    THEN ApiKeyRaise(table, "InvalidResourceTypeError")
    ELSE IF call_error("_validate_resource_exist", 3) # "none"
    THEN ApiKeyRaise(table, call_error("_validate_resource_exist", 3))
    ELSE IF resource_missing(tenant_id, resource_type, resource_id)
    THEN ApiKeyRaise(table, "InvalidResourceTypeError")
    ELSE IF call_error("_generate_unique_key", 0) # "none"
    THEN ApiKeyRaise(table, call_error("_generate_unique_key", 0))
    ELSE IF generate_unique_key(table, candidates) = <<>>
    THEN ApiKeyRaise(table, "DuplicateApiKeyError")
    ELSE [table |-> Append(table, [tenant_id |-> tenant_id,
                                   key |-> generate_unique_key(table, candidates)[1],
                                   resource_type |-> resource_type,
                                   resource_id |-> resource_id]),
          result |-> "ok", message |-> "none"]

\* Tables of at most two workflow keys with distinct key values, as the store
\* was left to the service.
StoredApiKeys ==
    LET rows == [tenant_id : Tenants, key : Keys, resource_type : {"workflow"},
                 resource_id : {"app1"}]
    IN  {<<>>} \cup {<<r>> : r \in rows}
        \cup {<<p[1], p[2]>> : p \in {q \in rows \X rows : q[1].key # q[2].key}}

\* Candidate lists: the first n draws return one key, the later ones another.
CandidateLists ==
    {[k \in 1 .. max_attempts |-> IF k <= n THEN a ELSE b] :
        n \in 0 .. max_attempts, a \in Keys, b \in Keys}

ApiKeyInit ==
    /\ NoPublish /\ NoRbac /\ NoExt /\ NoAux
    /\ api_keys \in StoredApiKeys
    /\ resp = [op |-> "none"]

\* ApiKeyListApi.post; exhausted: every candidate key was already stored.
CreateApiKey ==
    /\ \E tenant_id \in Tenants, resource_type \in {"agent-chat", "workflow", "dataset"},
          resource_id \in {"app1", "app2"}, candidates \in CandidateLists :
         LET out == create_api_key(api_keys, tenant_id, resource_type, resource_id, candidates)
         IN  /\ api_keys' = out.table
             /\ resp' = [op |-> "create_api_key", tenant_id |-> tenant_id,
                         resource_type |-> resource_type, resource_id |-> resource_id,
                         exhausted |-> generate_unique_key(api_keys, candidates) = <<>>,
                         result |-> out.result, message |-> out.message]
    /\ UNCHANGED <<pubVars, rbacVars, extVars, auxVars>>

ApiKeyNext == CreateApiKey

ApiKeySpec == ApiKeyInit /\ [][ApiKeyNext]_vars

----------------------------------------------------------------------------
(* Claims about API keys                                                   *)

----------------------------------------------------------------------------
(* Account creation and initialization (controllers/console/workspace/     *)
(* account.py).  A request is two steps, the query and the commit, and the *)
(* requests of different clients interleave between the two: the store is  *)
(* read and written under READ COMMITTED without row locks.                *)

MaxRequests == 3

Idle == [op |-> "idle", pc |-> "idle", email |-> "none", account_id |-> 0,
         invitation_code |-> "none", result |-> "none"]

\* AccountService.check_email_unique: no account row has the email.
check_email_unique(rows, email) == ~\E i \in DOMAIN rows : rows[i].email = email

\* AccountService.create_account(..., is_setup=True): inserts the row and commits.
\* The table has an index on email and no unique constraint on it.
create_account(rows, email) == Append(rows, [email |-> email, status |-> "active"])

\* TenantAccountRoleService.add_account_role: the account_roles table afterwards.
add_account_role(tenant_id, account_id, role_id) ==
    IF role_id \notin DOMAIN roles \/ roles[role_id].tenant_id # tenant_id
    THEN account_roles
    ELSE account_roles \cup {AccountRole(tenant_id, account_id, role_id)}

\* AccountCreateApi.post up to the email pre-check.
AccountCreateCheck(r) ==
    /\ requests[r].op = "idle"
    /\ \E email \in {"e1", "e3"} :      \* e1 is registered at the start, e3 is not
         requests' = [requests EXCEPT ![r] =
             IF check_email_unique(accounts, email)
             THEN [Idle EXCEPT !.op = "create", !.pc = "checked", !.email = email]
             ELSE [Idle EXCEPT !.op = "create", !.pc = "done", !.email = email,
                               !.result = "EmailAlreadyInUseError"]]
    /\ UNCHANGED <<pubVars, rbacVars, api_keys, accounts, invitation_codes,
                   token_pairs, operation_logs, resp, auxVars>>

\* AccountCreateApi.post from create_account on: the account row and its
\* account_roles row are committed one after the other.
AccountCreateCommit(r) ==
    /\ requests[r].op = "create" /\ requests[r].pc = "checked"
    /\ accounts' = create_account(accounts, requests[r].email)
    /\ account_roles' = add_account_role("t1", Len(accounts'), "r1")
    /\ requests' = [requests EXCEPT ![r].pc = "done", ![r].result = "success",
                                    ![r].account_id = Len(accounts')]
    /\ UNCHANGED <<pubVars, menus, roles, role_menus, role_resources, api_keys,
                   invitation_codes, token_pairs, operation_logs, resp, auxVars>>

\* AccountInitApi.post in cloud edition up to the invitation-code query.
AccountInitQuery(r) ==
    /\ requests[r].op = "idle"
    /\ \E account_id \in DOMAIN accounts, invitation_code \in {"c1", "bad"} :
         LET found == /\ invitation_code \in DOMAIN invitation_codes
                      /\ invitation_codes[invitation_code].status = "unused"
             req == [Idle EXCEPT !.op = "init", !.account_id = account_id,
                                 !.invitation_code = invitation_code]
         IN  requests' = [requests EXCEPT ![r] =
                 IF accounts[account_id].status = "active"
                 THEN [req EXCEPT !.pc = "done", !.result = "AccountAlreadyInitedError"]
                 ELSE IF ~found
                 THEN [req EXCEPT !.pc = "done", !.result = "InvalidInvitationCodeError"]
                 ELSE [req EXCEPT !.pc = "found"]]
    /\ UNCHANGED <<pubVars, rbacVars, api_keys, accounts, invitation_codes,
                   token_pairs, operation_logs, resp, auxVars>>

\* AccountInitApi.post from the assignments to db.session.commit(): the code row
\* the query returned and the account row are updated by primary key.
AccountInitCommit(r) ==
    /\ requests[r].op = "init" /\ requests[r].pc = "found"
    /\ invitation_codes' = [invitation_codes EXCEPT ![requests[r].invitation_code] =
           [status |-> "used", used_by_account_id |-> requests[r].account_id]]
    /\ accounts' = [accounts EXCEPT ![requests[r].account_id].status = "active"]
    /\ requests' = [requests EXCEPT ![r].pc = "done", ![r].result = "success"]
    /\ UNCHANGED <<pubVars, rbacVars, api_keys, token_pairs, operation_logs, resp, auxVars>>

\* Two accounts that have logged in and are not initialized, one unused code.
AccountInit ==
    /\ NoPublish /\ NoAux /\ api_keys = <<>>
    /\ menus = <<>> /\ account_roles = {} /\ role_menus = {} /\ role_resources = {}
    /\ roles = [r \in {"r1"} |-> [tenant_id |-> "t1", role_key |-> "editor"]]
    /\ accounts = <<[email |-> "e1", status |-> "uninitialized"],
                    [email |-> "e2", status |-> "uninitialized"]>>
    /\ invitation_codes = [c \in {"c1"} |-> [status |-> "unused", used_by_account_id |-> 0]]
    /\ requests = [r \in 1 .. MaxRequests |-> Idle]
    /\ token_pairs = <<>> /\ operation_logs = <<>>
    /\ resp = [op |-> "none"]

AccountNext ==
    \E r \in DOMAIN requests :
        \/ AccountCreateCheck(r)
        \/ AccountCreateCommit(r)
        \/ AccountInitQuery(r)
        \/ AccountInitCommit(r)

AccountSpec == AccountInit /\ [][AccountNext]_vars

----------------------------------------------------------------------------
(* Claims about accounts                                                   *)

C20_CodeConsumedOnce ==
    \A c \in DOMAIN invitation_codes :
        Cardinality({requests[r].account_id : r \in
            {q \in DOMAIN requests : /\ requests[q].op = "init"
                              /\ requests[q].result = "success"
                              /\ requests[q].invitation_code = c}}) <= 1

----------------------------------------------------------------------------
(* libs/passport.py and the magic-link endpoints                           *)
(* (controllers/console/auth/magic_link.py).                               *)
(*   dict        -> the set of its items [k |-> key, v |-> value]; a key    *)
(*                  is [t |-> "str" | "int", v |-> its text]                *)
(*   JSON object -> the set of its members [k |-> name, v |-> value]        *)
(*   ciphertext  -> [kind, key, iv, json]: decryptable with key only        *)
(*   JWT         -> [alg, body, sig], sig the MAC [key, body] of the body   *)

MaxLogins == 2

PassportService == [sk |-> "SECRET_KEY", encryption_key |-> "sha256(SECRET_KEY)"]

StrItem(k, v) == [k |-> [t |-> "str", v |-> k], v |-> v]
IntItem(k, v) == [k |-> [t |-> "int", v |-> k], v |-> v]

\* json.dumps(payload, separators=(',', ':')): every key is written as a string.
json_dumps(payload) == {[k |-> item.k.v, v |-> item.v] : item \in payload}

\* json.loads(payload_json): every member name is read as a str key.
json_loads(payload_json) ==
    {[k |-> [t |-> "str", v |-> member.k], v |-> member.v] : member \in payload_json}

\* PassportService._encrypt_payload with the iv that get_random_bytes(16) drew.
encrypt_payload(payload, iv) ==
    [kind |-> "aes", key |-> PassportService.encryption_key, iv |-> iv,
     json |-> json_dumps(payload)]

\* PassportService._decrypt_payload: every failure is raised as ValueError.
decrypt_payload(encrypted_payload) ==
    IF encrypted_payload.kind # "aes"
          \/ encrypted_payload.key # PassportService.encryption_key
    THEN [result |-> "raise", exception |-> "ValueError", payload |-> {}]
    ELSE [result |-> "return", exception |-> "none",
          payload |-> json_loads(encrypted_payload.json)]

\* jwt.encode(payload, key, algorithm="HS256")
jwt_encode(jwt_payload, key) ==
    [alg |-> "HS256", body |-> jwt_payload, sig |-> [key |-> key, body |-> jwt_payload]]

\* jwt.decode that would not verify the signature.
jwt_decode_unverified(token, key) ==
    IF token.body.exp = "past"
    THEN [result |-> "raise", exception |-> "ExpiredSignatureError"]
    ELSE [result |-> "return", exception |-> "none"]

\* jwt.decode(token, key, algorithms=["HS256"])
jwt_decode(token, key) ==
    IF token.alg # "HS256"
    THEN [result |-> "raise", exception |-> "InvalidAlgorithmError"]
    ELSE IF token.sig # [key |-> key, body |-> token.body]
    THEN [result |-> "raise", exception |-> "InvalidSignatureError"]
    ELSE IF token.body.exp = "past"
    THEN [result |-> "raise", exception |-> "ExpiredSignatureError"]
    ELSE [result |-> "return", exception |-> "none"]

\* PassportService.issue_encrypted
issue_encrypted(payload, iv) ==
    jwt_encode([encrypted |-> encrypt_payload(payload, iv),
                sub |-> "magic_link_encrypted", exp |-> "none"],
               PassportService.sk)

\* PassportService.verify_encrypted: every exception of jwt.decode and the
\* ValueError of _decrypt_payload are raised as Unauthorized.
verify_encrypted(token) ==
    LET decoded == jwt_decode(token, PassportService.sk)
        Unauthorized == [result |-> "raise", exception |-> "Unauthorized", payload |-> {}]
    IN  IF decoded.result = "raise" THEN Unauthorized
        ELSE IF token.body.encrypted.kind # "absent"
                   /\ token.body.sub = "magic_link_encrypted"
        THEN IF decrypt_payload(token.body.encrypted).result = "raise"
             THEN Unauthorized
             ELSE decrypt_payload(token.body.encrypted)
        ELSE Unauthorized

\* The payload MagicLinkGenerateApi.post builds for an account.
magic_link_payload(account, redirect) ==
    {StrItem("sub", "magic_link"), StrItem("user_id", account.id),
     StrItem("email", account.email), StrItem("redirect", redirect)}

\* Payloads json.dumps accepts.
Payloads ==
    { magic_link_payload([id |-> "a1", email |-> "e1"], "/"),
      magic_link_payload([id |-> "a9", email |-> "e9"], "/apps"),
      {StrItem("sub", "other")},
      {IntItem("1", "x")},
      {} }

IVs == {"iv1", "iv2"}

\* What a client can present for a token issued as t: t itself, t under a
\* later and under a passed expiry, t with another subject, t with its
\* ciphertext replaced and the signature kept, t signed or encrypted with
\* another key, t with no or an undecodable encrypted claim, t unsigned.
Tokens ==
    LET sk == PassportService.sk
        absent == [kind |-> "absent", key |-> "none", iv |-> "none", json |-> {}]
        Presented(t) ==
            { t,
              jwt_encode([t.body EXCEPT !.exp = "future"], sk),
              jwt_encode([t.body EXCEPT !.exp = "past"], sk),
              jwt_encode([t.body EXCEPT !.sub = "magic_link"], sk),
              [t EXCEPT !.body.encrypted.json = {[k |-> "sub", v |-> "magic_link"]}],
              [t EXCEPT !.sig.key = "forged"],
              jwt_encode(t.body, "OTHER_KEY"),
              jwt_encode([t.body EXCEPT !.encrypted.key = "OTHER_KEY"], sk),
              jwt_encode([t.body EXCEPT !.encrypted = absent], sk),
              jwt_encode([t.body EXCEPT !.encrypted.kind = "garbage"], sk),
              [t EXCEPT !.alg = "none"] }
    IN  UNION {Presented(issue_encrypted(payload, iv)) : payload \in Payloads, iv \in IVs}

\* MagicLinkGenerateApi.post
MagicLinkGenerateApi_post(account_id, redirect, iv) ==
    LET found == {i \in DOMAIN accounts : accounts[i].user_id = account_id}
    IN  IF found = {}
        THEN [result |-> "fail", status |-> 404, token |-> <<>>]
        ELSE LET account == accounts[CHOOSE i \in found : \A j \in found : i <= j]
             IN  [result |-> "success", status |-> 200,
                  token |-> <<issue_encrypted(magic_link_payload(account, redirect), iv)>>]

\* token_data[key] of the handler; "KeyError" when the payload has no such key.
Item(token_data, key) ==
    LET items == {item \in token_data : item.k = [t |-> "str", v |-> key]}
    IN  IF items = {} THEN "KeyError" ELSE (CHOOSE item \in items : TRUE).v

\* MagicLinkLoginApi.get: the answer and the account that is logged in.  The
\* handler keeps no record of the tokens it has accepted.
MagicLinkLoginApi_get(token) ==
    LET verified == verify_encrypted(token)
        token_data == verified.payload
        fail(status) == [result |-> "fail", status |-> status, account |-> <<>>]
    IN  IF verified.result = "raise" THEN fail(401)
        ELSE IF Item(token_data, "sub") = "KeyError" THEN [fail(500) EXCEPT !.result = "raise"]
        ELSE IF Item(token_data, "sub") # "magic_link" THEN fail(401)
        ELSE LET account_id == Item(token_data, "user_id")
                 found == {i \in DOMAIN accounts :
                             IF account_id # ""
                             THEN accounts[i].id = account_id
                             ELSE /\ Item(token_data, "email") # ""
                                  /\ accounts[i].email = Item(token_data, "email")}
             IN  IF found = {} THEN fail(404)
                 ELSE [result |-> "success", status |-> 200,
                       account |-> <<accounts[CHOOSE i \in found : TRUE].id>>]

\* AccountService.login: a new access / refresh token pair for the account.
login(pairs, account_id, token) ==
    Append(pairs, [account_id |-> account_id, magic_token |-> token])

\* POST /auth/magic-link/generate
Generate ==
    /\ \E account_id \in {"x1", "x9"}, redirect \in {"/", "/apps"}, iv \in IVs :
         resp' = [op |-> "generate", token |-> <<>>,
                  out |-> MagicLinkGenerateApi_post(account_id, redirect, iv)]
    /\ UNCHANGED <<pubVars, rbacVars, api_keys, extVars, auxVars>>

\* GET /magic-login?token=...
Login ==
    /\ Len(token_pairs) < MaxLogins
    /\ \E token \in Tokens :
         LET out == MagicLinkLoginApi_get(token)
         IN  /\ token_pairs' = IF out.result = "success"
                               THEN login(token_pairs, out.account[1], token)
                               ELSE token_pairs
             /\ resp' = [op |-> "login", token |-> <<token>>, out |-> out]
    /\ UNCHANGED <<pubVars, rbacVars, api_keys, accounts, invitation_codes,
                   requests, operation_logs, auxVars>>

\* PassportService().verify_encrypted(token) on any token a client can present.
VerifyEncrypted ==
    /\ \E token \in Tokens :
         resp' = [op |-> "verify_encrypted", token |-> <<token>>,
                  out |-> verify_encrypted(token)]
    /\ UNCHANGED <<pubVars, rbacVars, api_keys, extVars, auxVars>>

MagicInit ==
    /\ NoPublish /\ NoRbac /\ NoAux /\ api_keys = <<>>
    /\ accounts = <<[id |-> "a1", user_id |-> "x1", email |-> "e1", status |-> "active"]>>
    /\ invitation_codes = <<>> /\ requests = <<>> /\ operation_logs = <<>>
    /\ token_pairs = <<>>
    /\ resp = [op |-> "none", token |-> <<>>, out |-> <<>>]

MagicNext == Generate \/ Login \/ VerifyEncrypted

MagicSpec == MagicInit /\ [][MagicNext]_vars

----------------------------------------------------------------------------
(* Claims about magic links                                                *)

\* t is what issue_encrypted(payload) returned with iv, possibly carrying an
\* expiry that has not passed, and nothing of it was changed.
Genuine(t, payload, iv) ==
    /\ t.alg = "HS256"
    /\ t.sig = [key |-> PassportService.sk, body |-> t.body]
    /\ t.body.exp # "past"
    /\ [t.body EXCEPT !.exp = "none"] = issue_encrypted(payload, iv).body

\* payload with every key replaced by the str of its text.
StrKeyed(payload) == {StrItem(item.k.v, item.v) : item \in payload}

C13_TokenLogsInOnce ==
    [][( /\ resp'.op = "login"
         /\ \E i \in DOMAIN token_pairs : token_pairs[i].magic_token = resp'.token[1] )
       => /\ resp'.out.result = "fail"
          /\ token_pairs' = token_pairs]_vars

----------------------------------------------------------------------------
(* The operation_log decorator (controllers/console/system_log.py)         *)

MaxLogs == 2

\* _record_operation_log for a call [action, is_authenticated,
\* include_request_data, include_response_data, fault] of the decorator: the
\* log table afterwards and whether it raised.
record_operation_log(logs, call, result) ==
    IF ~call.is_authenticated THEN [logs |-> logs, raised |-> FALSE]
    ELSE IF call.include_request_data /\ call.fault = "get_json"
    THEN [logs |-> logs, raised |-> TRUE]
    ELSE IF call.fault \in {"begin", "create_log"} THEN [logs |-> logs, raised |-> TRUE]
    ELSE [logs |-> Append(logs,
                     [action |-> call.action,
                      request_data |-> call.include_request_data,
                      response_data |-> IF call.include_response_data /\ result.status # 0
                                        THEN <<result>> ELSE <<>>]),
          raised |-> FALSE]

\* A wrapper that would let the exception of the recording out.
operation_log_propagates(logs, call, handler) ==
    LET recorded == record_operation_log(logs, call, handler.response)
    IN  IF handler.result = "raise"
        THEN [result |-> "raise", response |-> handler.response, logs |-> logs]
        ELSE IF call.fault = "get_action_name" \/ recorded.raised
        THEN [result |-> "raise", response |-> [status |-> 500, body |-> call.fault],
              logs |-> logs]
        ELSE [result |-> "return", response |-> handler.response, logs |-> recorded.logs]

\* operation_log(...)(func): wrapper(*args, **kwargs).  An exception of func
\* leaves the wrapper before anything is recorded; an Exception of the
\* recording is logged and dropped.
operation_log(logs, call, handler) ==
    LET recorded == record_operation_log(logs, call, handler.response)
    IN  IF handler.result = "raise"
        THEN [result |-> "raise", response |-> handler.response, logs |-> logs]
        ELSE [result |-> "return", response |-> handler.response,
              logs |-> IF call.fault = "get_action_name" THEN logs ELSE recorded.logs]

\* A request to an endpoint decorated with @operation_log.  The handler
\* returns a response (None included) or raises; the recording raises an
\* Exception nowhere, in get_action_name, in request.get_json(), in
\* db.session.begin() (a transaction the handler left open) or in
\* OperationLogService.create_log (the insert or its commit).
DecoratedRequest ==
    /\ Len(operation_logs) < MaxLogs
    /\ \E handler \in
            {[result |-> "return", response |-> r] :
                r \in {[status |-> 200, body |-> "ok"], [status |-> 400, body |-> "bad"],
                       [status |-> 0, body |-> "None"]}}
            \cup {[result |-> "raise", response |-> [status |-> 500, body |-> "Forbidden"]]},
          fault \in {"none", "get_action_name", "get_json", "begin", "create_log"},
          action \in {"workflow_create", "agent_create"},
          is_authenticated \in BOOLEAN, include_request_data \in BOOLEAN,
          include_response_data \in BOOLEAN :
         LET call == [action |-> action, is_authenticated |-> is_authenticated,
                      include_request_data |-> include_request_data,
                      include_response_data |-> include_response_data, fault |-> fault]
             out == operation_log(operation_logs, call, handler)
         IN  /\ operation_logs' = out.logs
             /\ resp' = [op |-> "operation_log", handler |-> handler, fault |-> fault,
                         is_authenticated |-> is_authenticated,
                         result |-> out.result, response |-> out.response]
    /\ UNCHANGED <<pubVars, rbacVars, api_keys, accounts, invitation_codes,
                   requests, token_pairs, auxVars>>

OperationLogInit ==
    /\ NoPublish /\ NoRbac /\ NoExt /\ NoAux /\ api_keys = <<>>
    /\ resp = [op |-> "none"]

OperationLogNext == DecoratedRequest

OperationLogSpec == OperationLogInit /\ [][OperationLogNext]_vars

\* C14: when the handler returns, the wrapper returns the handler's response,
\* whether the recording wrote a row, wrote none or raised.
C14_ResponseUnchanged ==
    [][( resp'.op = "operation_log" /\ resp'.handler.result = "return" )
       => /\ resp'.result = "return"
          /\ resp'.response = resp'.handler.response]_vars

\* The recording raised in create_log and the response came back all the same.
C14_Witness ==
    /\ resp.op = "operation_log"
    /\ resp.handler.result = "return" /\ resp.handler.response.status = 200
    /\ resp.fault = "create_log" /\ resp.is_authenticated
    /\ resp.result = "return" /\ resp.response = resp.handler.response
    /\ operation_logs = <<>>

----------------------------------------------------------------------------
(* The RAG workflow node (core/workflow/nodes/rag/node.py, entities.py)    *)
(*   template -> the sequence of its segments, a text segment [text] or a   *)
(*               variable reference [variable, value_selector]             *)
(*   str(e), error texts -> the sequence of their parts                    *)
(*   None     -> <<>>, a present value v -> <<v>>                           *)

TagFields == {"chi_pro", "chi_scene", "chi_spe", "chi_spec",
              "province_tag", "scene_tag", "specialty_tag"}

Ref(node, name) == [variable |-> <<"#", node, name, "#">>, value_selector |-> <<node, name>>]

\* variable_template_parser.extract_selectors_from_template
extract_selectors_from_template(template) ==
    {template[i] : i \in {j \in DOMAIN template : "variable" \in DOMAIN template[j]}}

\* variable_pool.convert_template(template).text
convert_template(template) ==
    [i \in DOMAIN template |->
        IF "variable" \in DOMAIN template[i]
        THEN <<"value of", template[i].value_selector>>
        ELSE <<template[i].text>>]

\* RagNode._resolve_template
resolve_template(template) ==
    IF template = <<>> THEN template ELSE convert_template(template)

\* RagTag(**tag_data): a field that is not given holds its default "".
RagTag(tag_data) ==
    [field \in TagFields |-> IF field \in DOMAIN tag_data THEN tag_data[field] ELSE <<>>]

\* RagNode._build_rag_request: the tags come from self_build_rag['tag'], one
\* dict or a list of dicts.
build_rag_request(node_data) ==
    LET tag_data_list == IF node_data.self_build_rag = <<>> THEN <<>>
                         ELSE node_data.self_build_rag[1].tag
    IN  [query |-> convert_template(node_data.query),
         tag |-> [i \in DOMAIN tag_data_list |->
                    [field \in TagFields |->
                        resolve_template(RagTag(tag_data_list[i])[field])]],
         top_k |-> node_data.top_k]

\* RagNode._extract_variable_selector_to_variable_mapping: the tags come from
\* the tag field of the node data.
extract_variable_selector_to_variable_mapping(node_id, node_data) ==
    LET selectors ==
            extract_selectors_from_template(node_data.query)
            \cup UNION {extract_selectors_from_template(RagTag(node_data.tag[i])[field]) :
                            i \in DOMAIN node_data.tag, field \in TagFields}
    IN  {[key |-> <<node_id, ".", selector.variable>>,
          value_selector |-> selector.value_selector] : selector \in selectors}

\* ContextItem(**item): a field that is not given holds its default "".
ContextItem(item) ==
    [field \in {"doc_name", "text", "img_url", "url"} |->
        IF field \in DOMAIN item THEN item[field] ELSE ""]

\* RagResponse(**response_data)
RagResponse(response_data) ==
    [code |-> IF "code" \in DOMAIN response_data THEN response_data.code ELSE "",
     msg |-> IF "msg" \in DOMAIN response_data THEN response_data.msg ELSE "",
     status |-> IF "status" \in DOMAIN response_data THEN response_data.status ELSE "",
     data |-> IF "data" \in DOMAIN response_data
              THEN <<[context |-> [i \in DOMAIN response_data.data.context |->
                                      ContextItem(response_data.data.context[i])],
                      query |-> response_data.data.query]>>
              ELSE <<>>]

RagRaise(exception, error) ==
    [result |-> "raise", exception |-> exception, error |-> error, response |-> <<>>]

\* _send_rag_request that would not catch httpx.HTTPError.
send_rag_request_uncaught(upstream) ==
    IF upstream.kind = "transport"
    THEN RagRaise(upstream.exception, <<upstream.error>>)
    ELSE IF upstream.status_code \notin 200 .. 299
    THEN RagRaise("HTTPStatusError", <<"status", upstream.status_code>>)
    ELSE IF upstream.body.kind = "object"
    THEN [result |-> "return", exception |-> "none", error |-> <<>>,
          response |-> <<RagResponse(upstream.body.json)>>]
    ELSE RagRaise("RagResponseError", <<"Failed to parse response: ", upstream.body.kind>>)

\* RagNode._send_rag_request.  client.post raises a transport error;
\* raise_for_status raises httpx.HTTPStatusError, an httpx.HTTPError, on a
\* status outside 2xx; response.json() raises JSONDecodeError and
\* RagResponse(**object) raises ValidationError, both ValueErrors;
\* RagResponse(**array) raises TypeError, which is not caught here.
send_rag_request(upstream) ==
    IF upstream.kind = "transport"
    THEN RagRaise("RagRequestError", <<"HTTP request failed: ", upstream.error>>)
    ELSE IF upstream.status_code \notin 200 .. 299
    THEN RagRaise("RagRequestError",
                  <<"HTTP request failed: ", "status", upstream.status_code>>)
    ELSE IF upstream.body.kind \in {"text", "object of wrong types"}
    THEN RagRaise("RagResponseError", <<"Failed to parse response: ", upstream.body.kind>>)
    ELSE IF upstream.body.kind = "array"
    THEN RagRaise("TypeError", <<"argument after ** must be a mapping, not list">>)
    ELSE [result |-> "return", exception |-> "none", error |-> <<>>,
          response |-> <<RagResponse(upstream.body.json)>>]

NodeRunResult(status, outputs, error, error_type, process_data) ==
    [status |-> status, outputs |-> outputs, error |-> error,
     error_type |-> error_type, process_data |-> process_data]

\* self.continue_on_error or self.retry, with only the first looked at.
structured_failure_ignores_retry(node) == node.continue_on_error

\* self.continue_on_error or self.retry
structured_failure(node) == node.continue_on_error \/ node.retry

\* The context output with the last item left out.
context_outputs_short(response) ==
    IF response.data = <<>> THEN <<>>
    ELSE SubSeq(response.data[1].context, 1, Len(response.data[1].context) - 1)

\* [item.model_dump() for item in response.data.context] if response.data else []
context_outputs(response) ==
    IF response.data = <<>> THEN <<>> ELSE response.data[1].context

\* RagNode._run
run(node, upstream) ==
    LET process_data == [request |-> build_rag_request(node.data)]
        sent == send_rag_request(upstream)
        response == sent.response[1]
    IN  IF sent.result = "raise"
        THEN IF sent.exception \in {"RagRequestError", "RagResponseError"}
             THEN NodeRunResult("FAILED", <<>>, sent.error, sent.exception, process_data)
             ELSE NodeRunResult("FAILED", <<>>, <<"Unexpected error: ">> \o sent.error,
                                "UnexpectedError", process_data)
        ELSE IF response.status # "SUCCESS"
        THEN NodeRunResult("FAILED",
                 IF structured_failure(node)
                 THEN <<[status |-> response.status, msg |-> response.msg,
                         data |-> response.data]>>
                 ELSE <<>>,
                 <<response.msg>>, "RagResponseError", process_data)
        ELSE NodeRunResult("SUCCEEDED",
                 <<[status |-> response.status, msg |-> response.msg,
                    data |-> response.data, context |-> context_outputs(response)]>>,
                 <<>>, "", process_data)

\* One run of the node against one answer of the retrieval service: a
\* transport error, or a response of some status whose body is no JSON, a JSON
\* array, an object of wrong field types or an object RagResponse accepts.
Run ==
    /\ \E upstream \in
            LET item1 == [doc_name |-> "d1", text |-> "t1", url |-> "http://example.com/1"]
                item2 == [doc_name |-> "d2", text |-> "t2", img_url |-> "i2"]
                data == [context |-> <<item1, item2>>, query |-> "q"]
                objects ==
                    { [code |-> "0", status |-> "SUCCESS", msg |-> "found", data |-> data],
                      [code |-> "0", status |-> "SUCCESS", msg |-> "found"],
                      [code |-> "1", status |-> "FAILURE", msg |-> "no result"],
                      [code |-> "1", status |-> "FAILURE", msg |-> "partial", data |-> data],
                      [code |-> "2"] }
            IN  {[kind |-> "transport", exception |-> e[1], error |-> e[2]] :
                    e \in {<<"ConnectError", "connection refused">>,
                           <<"ReadTimeout", "timed out">>,
                           <<"RemoteProtocolError", "server disconnected">>}}
                \cup {[kind |-> "response", status_code |-> code, body |-> body] :
                        code \in {200, 404, 500},
                        body \in {[kind |-> "text"], [kind |-> "array"],
                                  [kind |-> "object of wrong types"]}
                                 \cup {[kind |-> "object", json |-> d] : d \in objects}} :
         resp' = [op |-> "run", node |-> resp.node, upstream |-> upstream,
                  out |-> run(resp.node, upstream)]
    /\ UNCHANGED <<pubVars, rbacVars, api_keys, extVars, auxVars>>

\* The graph compiler asks for the variables the node depends on.
ExtractVariableSelectors ==
    /\ resp' = [op |-> "extract", node |-> resp.node, upstream |-> <<>>,
                out |-> [mapping |-> extract_variable_selector_to_variable_mapping(
                                         resp.node.id, resp.node.data)]]
    /\ UNCHANGED <<pubVars, rbacVars, api_keys, extVars, auxVars>>

\* A node as init_node_data leaves it: a query that is plain text or references
\* a variable, tag templates in the tag field and / or under self_build_rag.tag
\* (absent, without tag, one dict, a list of dicts).
RagInit ==
    /\ NoPublish /\ NoRbac /\ NoExt /\ NoAux /\ api_keys = <<>>
    /\ \E node \in
            LET a == <<Ref("start", "question")>>
                b == <<[text |-> "province "], Ref("n1", "province")>>
                c == <<Ref("n2", "scene")>>
            IN  [id : {"rag1"},
                 data : [query : {<<[text |-> "fixed"]>>, a},
                         tag : {<<>>, <<[chi_pro |-> b]>>},
                         self_build_rag :
                             {<<>>, <<[tag |-> <<>>]>>, <<[tag |-> <<[scene_tag |-> c]>>]>>,
                              <<[tag |-> <<[chi_pro |-> b],
                                           [scene_tag |-> c, chi_spec |-> <<>>]>>]>>},
                         top_k : {3}],
                 continue_on_error : BOOLEAN, retry : BOOLEAN] :
         resp = [op |-> "none", node |-> node, upstream |-> <<>>,
                 out |-> [status |-> "none"]]

RagNext == Run \/ ExtractVariableSelectors

RagSpec == RagInit /\ [][RagNext]_vars

----------------------------------------------------------------------------
(* Claims about the RAG node                                               *)

\* The service answered 2xx with a JSON object that parses as a RagResponse.
Parsed(upstream) ==
    /\ upstream.kind = "response"
    /\ upstream.status_code \in 200 .. 299
    /\ upstream.body.kind = "object"

\* C15: a transport failure of the outbound call gives a FAILED result of
\* error type RagRequestError whose error text holds the failure description.
C15_TransportFailureIsRequestError ==
    [][( resp'.op = "run" /\ resp'.upstream.kind = "transport" )
       => /\ resp'.out.status = "FAILED"
          /\ resp'.out.error_type = "RagRequestError"
          /\ \E i \in DOMAIN resp'.out.error : resp'.out.error[i] = resp'.upstream.error]_vars

C15_Witness ==
    /\ resp.op = "run" /\ resp.upstream.kind = "transport"
    /\ resp.upstream.exception = "ReadTimeout"
    /\ resp.out.status = "FAILED" /\ resp.out.error_type = "RagRequestError"
    /\ resp.out.error = <<"HTTP request failed: ", "timed out">>

\* C16: a status outside 2xx, or a body that does not parse as a RagResponse,
\* gives a FAILED result of error type RagResponseError.
C16_BadResponseIsResponseError ==
    [][( resp'.op = "run" /\ resp'.upstream.kind = "response" /\ ~Parsed(resp'.upstream) )
       => /\ resp'.out.status = "FAILED"
          /\ resp'.out.error_type = "RagResponseError"]_vars

\* C17: a parsed response whose status is not SUCCESS gives a FAILED result of
\* error type RagResponseError with the remote message as error; its outputs
\* are the remote status, message and data when the node continues on error or
\* retries, and it has no outputs otherwise.
C17_RemoteFailure ==
    [][( /\ resp'.op = "run" /\ Parsed(resp'.upstream)
         /\ RagResponse(resp'.upstream.body.json).status # "SUCCESS" )
       => LET response == RagResponse(resp'.upstream.body.json)
          IN  /\ resp'.out.status = "FAILED"
              /\ resp'.out.error_type = "RagResponseError"
              /\ resp'.out.error = <<response.msg>>
              /\ resp'.out.outputs =
                    IF resp'.node.continue_on_error \/ resp'.node.retry
                    THEN <<[status |-> response.status, msg |-> response.msg,
                            data |-> response.data]>>
                    ELSE <<>>]_vars

C17_Witness ==
    /\ resp.op = "run" /\ Parsed(resp.upstream)
    /\ RagResponse(resp.upstream.body.json).status = "FAILURE"
    /\ "data" \in DOMAIN resp.upstream.body.json
    /\ resp.node.retry /\ ~resp.node.continue_on_error
    /\ resp.out.status = "FAILED"
    /\ resp.out.outputs # <<>> /\ resp.out.outputs[1].msg = "partial"

ResolvedTemplates(node_data) ==
    {node_data.query}
    \cup IF node_data.self_build_rag = <<>> THEN {}
         ELSE LET tags == node_data.self_build_rag[1].tag
              IN  {RagTag(tags[i])[field] : i \in DOMAIN tags, field \in TagFields} \ {<<>>}

\* C19: the mapping holds one entry node_id.selector for every selector of the
\* templates the node resolves, and no other entry.
C19_MappingCoversResolvedTemplates ==
    [][resp'.op = "extract"
       => resp'.out.mapping =
            {[key |-> <<resp'.node.id, ".", selector.variable>>,
              value_selector |-> selector.value_selector] :
                selector \in UNION {extract_selectors_from_template(template) :
                                       template \in ResolvedTemplates(resp'.node.data)}}]_vars

----------------------------------------------------------------------------
(* Email change: controllers/console/workspace/account.py                  *)
(* AccountService is not part of the sources: its token store is modelled  *)
(* from the way the three handlers use it.  A token maps to the data       *)
(* {email, code, old_email}; issued_by is history (which step stored the   *)
(* token) and live is FALSE once revoke_change_email_token ran.            *)

MaxTokens == 3

\* AccountService.get_change_email_data: None for an unknown or revoked token.
get_change_email_data(token) ==
    IF token \in DOMAIN change_email_tokens /\ change_email_tokens[token].live
    THEN <<change_email_tokens[token]>>
    ELSE <<>>

\* AccountService.generate_change_email_token: the store with a fresh token.
generate_change_email_token(store, email, code, old_email, step) ==
    Append(store, [email |-> email, code |-> code, old_email |-> old_email,
                   issued_by |-> step, live |-> TRUE])

\* AccountService.revoke_change_email_token
revoke_change_email_token(store, token) == [store EXCEPT ![token].live = FALSE]

\* AccountService.update_account_email on the row of current_user.
update_account_email(rows, current_user, email) == [rows EXCEPT ![current_user].email = email]

\* ChangeEmailSendEmailApi.post: the mailed code is "k1".
ChangeEmailSendEmailApi_post(current_user, args) ==
    LET reset_data == get_change_email_data(args.token)
        user_email == IF args.phase = "new_email" THEN reset_data[1].email ELSE args.email
        issued     == generate_change_email_token(change_email_tokens, args.email, "k1",
                                                  user_email, "send")
    IN  IF args.phase = "new_email" /\ reset_data = <<>>
        THEN [result |-> "InvalidTokenError", tokens |-> change_email_tokens]
        ELSE IF args.phase = "new_email" /\ user_email # accounts[current_user].email
        THEN [result |-> "InvalidEmailError", tokens |-> change_email_tokens]
        ELSE IF args.phase # "new_email" /\ check_email_unique(accounts, args.email)
        THEN [result |-> "AccountNotFound", tokens |-> change_email_tokens]
        ELSE [result |-> "success", tokens |-> issued]

\* ChangeEmailCheckApi.post
ChangeEmailCheckApi_post(args, limited) ==
    LET token_data == get_change_email_data(args.token)
        revoked    == revoke_change_email_token(change_email_tokens, args.token)
        issued     == generate_change_email_token(revoked, args.email, args.code,
                                                  token_data[1].old_email, "check")
    IN  IF limited
        THEN [result |-> "EmailChangeLimitError", tokens |-> change_email_tokens]
        ELSE IF token_data = <<>>
        THEN [result |-> "InvalidTokenError", tokens |-> change_email_tokens]
        ELSE IF args.email # token_data[1].email
        THEN [result |-> "InvalidEmailError", tokens |-> change_email_tokens]
        ELSE IF args.code # token_data[1].code
        THEN [result |-> "EmailCodeError", tokens |-> change_email_tokens]
        ELSE [result |-> "success", tokens |-> issued]

\* ChangeEmailResetApi.post
ChangeEmailResetApi_post(current_user, args) ==
    LET reset_data == get_change_email_data(args.token)
        revoked    == revoke_change_email_token(change_email_tokens, args.token)
    IN  IF ~check_email_unique(accounts, args.new_email)
        THEN [result |-> "EmailAlreadyInUseError", tokens |-> change_email_tokens,
              accounts |-> accounts]
        ELSE IF reset_data = <<>>
        THEN [result |-> "InvalidTokenError", tokens |-> change_email_tokens,
              accounts |-> accounts]
        ELSE IF accounts[current_user].email # reset_data[1].old_email
        THEN [result |-> "AccountNotFound", tokens |-> revoked, accounts |-> accounts]
        ELSE [result |-> "success", tokens |-> revoked,
              accounts |-> update_account_email(accounts, current_user, args.new_email)]

ChangeEmailSend ==
    \E current_user \in DOMAIN accounts, email \in {"e1", "e2", "e3"},
       phase \in {"none", "new_email"}, token \in 0 .. MaxTokens :
        LET out == ChangeEmailSendEmailApi_post(current_user,
                       [email |-> email, phase |-> phase, token |-> token])
        IN  /\ Len(change_email_tokens) < MaxTokens
            /\ change_email_tokens' = out.tokens
            /\ resp' = [op |-> "send", token |-> token, result |-> out.result]
            /\ UNCHANGED <<pubVars, rbacVars, api_keys, extVars, agent_mode, ssoVars>>

ChangeEmailCheck ==
    \E email \in {"e1", "e2", "e3"}, code \in {"k1", "bad"}, token \in 0 .. MaxTokens,
       limited \in BOOLEAN :
        LET out == ChangeEmailCheckApi_post([email |-> email, code |-> code, token |-> token],
                                            limited)
        IN  /\ Len(change_email_tokens) < MaxTokens
            /\ change_email_tokens' = out.tokens
            /\ resp' = [op |-> "check", token |-> token, result |-> out.result]
            /\ UNCHANGED <<pubVars, rbacVars, api_keys, extVars, agent_mode, ssoVars>>

ChangeEmailReset ==
    \E current_user \in DOMAIN accounts, new_email \in {"e1", "e2", "e3"},
       token \in 0 .. MaxTokens :
        LET out == ChangeEmailResetApi_post(current_user,
                       [new_email |-> new_email, token |-> token])
        IN  /\ change_email_tokens' = out.tokens
            /\ accounts' = out.accounts
            /\ resp' = [op |-> "reset", token |-> token, result |-> out.result]
            /\ UNCHANGED <<pubVars, rbacVars, api_keys, invitation_codes, requests,
                           token_pairs, operation_logs, agent_mode, ssoVars>>

\* Two accounts, nobody has asked for an email change yet.
ChangeEmailInit ==
    /\ NoPublish /\ NoRbac /\ api_keys = <<>>
    /\ accounts = <<[email |-> "e1"], [email |-> "e2"]>>
    /\ invitation_codes = <<>> /\ requests = <<>> /\ operation_logs = <<>>
    /\ token_pairs = <<>>
    /\ change_email_tokens = <<>> /\ agent_mode = <<>> /\ NoSso
    /\ resp = [op |-> "none", token |-> 0, result |-> "none"]

ChangeEmailNext == ChangeEmailSend \/ ChangeEmailCheck \/ ChangeEmailReset

ChangeEmailSpec == ChangeEmailInit /\ [][ChangeEmailNext]_vars

\* C21: a reset call changes an account's email only when the token it was
\* given is one that a successful check-code call issued; a token issued by
\* send-code never lets reset change the email.
C21_ResetNeedsVerifiedToken ==
    [][(resp'.op = "reset" /\ accounts' # accounts)
          => change_email_tokens[resp'.token].issued_by = "check"]_vars

----------------------------------------------------------------------------
(* Role and menu maintenance, one request at a time                        *)
(* (services/role_service.py, services/role_account_service.py)            *)

Role(tenant_id, role_data) ==
    [tenant_id |-> tenant_id, role_key |-> role_data.role_key,
     role_name |-> role_data.role_name, is_active |-> TRUE]

create_role(db, tenant_id, role_data) ==
    IF \E r \in DOMAIN db.roles :
          db.roles[r].tenant_id = tenant_id /\ db.roles[r].role_key = role_data.role_key
    THEN MenuRaise(db, "ValueError")
    \* flush: uk_roles_tenant_name
    ELSE IF \E r \in DOMAIN db.roles :
               db.roles[r].tenant_id = tenant_id /\ db.roles[r].role_name = role_data.role_name
    THEN MenuRaise(db, "IntegrityError")
    ELSE LET id == CHOOSE r \in RoleIds \ DOMAIN db.roles : TRUE
         IN  MenuReturn([db EXCEPT !.roles =
                            [r \in DOMAIN @ \cup {id} |->
                                IF r = id THEN Role(tenant_id, role_data) ELSE @[r]]],
                        "ok")

update_role(db, tenant_id, role_id, role_data) ==
    IF role_id \notin DOMAIN db.roles \/ db.roles[role_id].tenant_id # tenant_id
    THEN MenuRaise(db, "ValueError")
    ELSE
    LET role == db.roles[role_id]
        existing ==
            /\ "role_name" \in DOMAIN role_data
            /\ role_data.role_name # role.role_name
            /\ \E r \in DOMAIN db.roles \ {role_id} :
                  /\ db.roles[r].tenant_id = tenant_id
                  /\ db.roles[r].role_name = role_data.role_name
    IN  IF existing THEN MenuRaise(db, "ValueError")
        ELSE MenuReturn(
                 [db EXCEPT !.roles[role_id] =
                     [f \in DOMAIN role |->
                         IF f \in DOMAIN role_data THEN role_data[f] ELSE role[f]]],
                 "ok")

RECURSIVE batch_delete_roles(_, _, _, _)
\* The roles of role_ids that belong to the tenant are deleted one by one, each
\* by delete_role; a ValueError of one is recorded and the loop goes on, any
\* other exception leaves the loop with the earlier deletes committed.
batch_delete_roles(db, tenant_id, role_ids, force) ==
    LET valid_role_ids == {r \in role_ids \cap DOMAIN db.roles :
                              db.roles[r].tenant_id = tenant_id}
        role_id == CHOOSE r \in valid_role_ids : TRUE
        out     == delete_role(db, tenant_id, role_id, force)
    IN  IF valid_role_ids = {} THEN MenuReturn(db, "ok")
        ELSE IF out.result = "raise" /\ out.message # "ValueError" THEN out
        ELSE batch_delete_roles(out.db, tenant_id, valid_role_ids \ {role_id}, force)

\* Accounts of account_ids that are members of the tenant.
valid_accounts(tenant_id, account_ids) ==
    {a \in account_ids : <<tenant_id, a>> \in TenantAccountJoins}

assign_accounts_to_role(db, tenant_id, role_id, account_ids) ==
    IF role_id \notin DOMAIN db.roles \/ db.roles[role_id].tenant_id # tenant_id
    THEN MenuRaise(db, "ValueError")
    ELSE IF account_ids \ valid_accounts(tenant_id, account_ids) # {}
    THEN MenuRaise(db, "ValueError")
    ELSE MenuReturn(
             [db EXCEPT !.account_roles =
                 {ar \in @ : ~(ar.tenant_id = tenant_id /\ ar.role_id = role_id)}
                 \cup {AccountRole(tenant_id, a, role_id) : a \in account_ids}],
             "ok")

assign_roles_to_user(db, tenant_id, account_id, role_ids) ==
    LET valid_role_ids == {r \in role_ids \cap DOMAIN db.roles :
                              db.roles[r].tenant_id = tenant_id /\ db.roles[r].is_active}
    IN  IF <<tenant_id, account_id>> \notin TenantAccountJoins
        THEN MenuRaise(db, "ValueError")
        ELSE IF role_ids \ valid_role_ids # {}
        THEN MenuRaise(db, "ValueError")
        ELSE MenuReturn(
                 [db EXCEPT !.account_roles =
                     {ar \in @ : ~(ar.tenant_id = tenant_id /\ ar.account_id = account_id)}
                     \cup {AccountRole(tenant_id, account_id, r) : r \in valid_role_ids}],
                 "ok")

remove_user_from_role(db, tenant_id, role_id, account_id) ==
    IF role_id \notin DOMAIN db.roles \/ db.roles[role_id].tenant_id # tenant_id
    THEN MenuRaise(db, "ValueError")
    ELSE MenuReturn(
             [db EXCEPT !.account_roles = @ \ {AccountRole(tenant_id, account_id, role_id)}],
             IF AccountRole(tenant_id, account_id, role_id) \in db.account_roles
             THEN "ok" ELSE "not held")

\* Adds the role to the members of account_ids that do not hold it yet.
batch_assign_role_to_users(db, tenant_id, role_id, account_ids) ==
    IF role_id \notin DOMAIN db.roles \/ db.roles[role_id].tenant_id # tenant_id
    THEN MenuRaise(db, "ValueError")
    ELSE MenuReturn(
             [db EXCEPT !.account_roles =
                 @ \cup {AccountRole(tenant_id, a, role_id) :
                            a \in valid_accounts(tenant_id, account_ids)}],
             "ok")

\* A role in each tenant, a root menu with one child.
RoleMenuInit ==
    /\ NoPublish /\ NoExt /\ NoAux /\ api_keys = <<>>
    /\ menus = [id \in {1, 2} |->
                   [menu_key |-> id, menu_name |-> id,
                    parent_id |-> IF id = 2 THEN 1 ELSE None,
                    sort_order |-> 0, is_active |-> TRUE]]
    /\ roles = [r \in {"r1", "r3"} |->
                   Role(IF r = "r3" THEN "t2" ELSE "t1", [role_key |-> r, role_name |-> r])]
    /\ account_roles = {}
    /\ role_menus = {}
    /\ role_resources = {}
    /\ resp = RbacNoResp

\* A write request answered by out; resp.out counts the AccountRole and
\* RoleMenu rows the request removed.
RoleMenuWrite(op, tenant_id, role_id, out) ==
    /\ InstallRbac(out.db)
    /\ resp' = [RbacNoResp EXCEPT !.op = op, !.tenant_id = tenant_id, !.role_id = role_id,
                                  !.result = out.result, !.message = out.message,
                                  !.out = <<Cardinality(account_roles \ out.db.account_roles),
                                            Cardinality(role_menus \ out.db.role_menus)>>]
    /\ UNCHANGED <<pubVars, api_keys, extVars, auxVars>>

RoleMenuNext ==
    \/ /\ \E id \in {1, 2} : id \notin DOMAIN menus
       /\ RoleMenuWrite("create_menu", "none", "none",
                        create_menu(RbacDB,
                            [menu_key |-> FreeKey, menu_name |-> FreeKey, parent_id |-> None,
                             sort_order |-> 0, is_active |-> TRUE]))
    \/ \E menu_data \in {[is_active |-> FALSE], [parent_id |-> 1]} :
            RoleMenuWrite("update_menu", "none", "none", update_menu(RbacDB, 2, menu_data))
    \/ \E menu_id \in {1, 2}, cascade \in BOOLEAN :
            RoleMenuWrite("delete_menu", "none", "none", delete_menu(RbacDB, menu_id, cascade))
    \/ \E tenant_id \in Tenants, menu_ids \in {{}, MenuIds} :
            RoleMenuWrite("assign_menus", "none", "none",
                          assign_menus(RbacDB, tenant_id, "r1", menu_ids))
    \/ /\ RoleIds \ DOMAIN roles # {}
       /\ \E role_key \in {"r1", "r2"} :
            RoleMenuWrite("create_role", "none", "none",
                          create_role(RbacDB, "t1",
                                      [role_key |-> role_key, role_name |-> role_key]))
    \/ \E tenant_id \in Tenants, role_data \in {[is_active |-> FALSE], [role_name |-> "r1"]} :
            RoleMenuWrite("update_role", "none", "none",
                          update_role(RbacDB, tenant_id, "r1", role_data))
    \/ \E tenant_id \in Tenants, role_id \in RoleIds, force \in BOOLEAN :
            RoleMenuWrite("delete_role", "none", "none",
                          delete_role(RbacDB, tenant_id, role_id, force))
    \/ \E force \in BOOLEAN :
            RoleMenuWrite("batch_delete_roles", "none", "none",
                          batch_delete_roles(RbacDB, "t1", RoleIds, force))
    \/ \E tenant_id \in Tenants, account_ids \in {{}, {"a1"}} :
            RoleMenuWrite("assign_accounts_to_role", "none", "none",
                          assign_accounts_to_role(RbacDB, tenant_id, "r1", account_ids))
    \/ \E tenant_id \in Tenants, role_ids \in {{}, {"r1", "r2"}, {"r3"}} :
            RoleMenuWrite("assign_roles_to_user", "none", "none",
                          assign_roles_to_user(RbacDB, tenant_id, "a1", role_ids))
    \/ \E tenant_id \in Tenants, role_id \in RoleIds :
            RoleMenuWrite("add_account_to_role", "none", "none",
                          add_account_to_role(RbacDB, tenant_id, role_id, "a1"))
    \/ \E tenant_id \in Tenants :
            RoleMenuWrite("remove_user_from_role", "none", "none",
                          remove_user_from_role(RbacDB, tenant_id, "r1", "a1"))
    \/ RoleMenuWrite("batch_assign_role_to_users", "none", "none",
                     batch_assign_role_to_users(RbacDB, "t1", "r2", {"a1", "a2"}))

RoleMenuSpec == RoleMenuInit /\ [][RoleMenuNext]_vars

\* C22: after any sequence of role and menu requests executed one at a
\* time, every AccountRole row names a stored role and every RoleMenu row
\* names a stored role and a stored menu.
C22_NoDanglingRows ==
    /\ \A ar \in account_roles : ar.role_id \in DOMAIN roles
    /\ \A rm \in role_menus : rm.role_id \in DOMAIN roles /\ rm.menu_id \in DOMAIN menus

\* A forced delete_role, or a delete_menu, has just removed rows that pointed
\* at what it deleted, while rows of other roles and menus stay.
C22_Witness ==
    /\ resp.op \in {"delete_role", "delete_menu"}
    /\ resp.result = "ok"
    /\ resp.out[1] + resp.out[2] > 0
    /\ account_roles # {}
    /\ role_menus # {}

----------------------------------------------------------------------------
(* RoleAccountService.add_account_to_role, commit by commit                *)
(* The method commits twice: once after deleting the account's rows of the *)
(* tenant and once after inserting the new row.  Requests of other workers *)
(* run between the two.                                                    *)

\* Rows of the account in the tenant.
rows_of(table, tenant_id, account_id) ==
    {ar \in table : ar.tenant_id = tenant_id /\ ar.account_id = account_id}

\* Lines 244-274: the checks, the delete and the first commit.
add_account_to_role_delete(db, tenant_id, role_id, account_id) ==
    IF role_id \notin DOMAIN db.roles \/ db.roles[role_id].tenant_id # tenant_id
    THEN MenuRaise(db, "ValueError")
    ELSE IF <<tenant_id, account_id>> \notin TenantAccountJoins
    THEN MenuRaise(db, "ValueError")
    ELSE IF AccountRole(tenant_id, account_id, role_id) \in db.account_roles
    THEN MenuReturn(db, "already")
    ELSE MenuReturn(
             [db EXCEPT !.account_roles = @ \ rows_of(@, tenant_id, account_id)],
             "deleted")

\* Lines 276-285: the insert and the second commit; the flush fails on
\* uk_user_roles_tenant_account_role when the row is there by now.
add_account_to_role_insert(db, tenant_id, role_id, account_id) ==
    IF AccountRole(tenant_id, account_id, role_id) \in db.account_roles
    THEN MenuRaise(db, "IntegrityError")
    ELSE MenuReturn(
             [db EXCEPT !.account_roles = @ \cup {AccountRole(tenant_id, account_id, role_id)}],
             "ok")

\* A request enters the method; before keeps the table as the call found it.
AddAccountToRoleBegin(r) ==
    /\ requests[r].pc = "idle"
    /\ \E role_id \in {"r1", "r2", "r3"}, account_id \in {"a1", "a2"} :
         LET out == add_account_to_role_delete(RbacDB, "t1", role_id, account_id)
         IN  /\ account_roles' = out.db.account_roles
             /\ requests' = [requests EXCEPT ![r] =
                    [pc |-> IF out.result = "deleted" THEN "deleted" ELSE "done",
                     role_id |-> role_id, account_id |-> account_id,
                     before |-> account_roles]]
             /\ resp' = [op |-> IF out.result = "deleted" THEN "running"
                                ELSE "add_account_to_role",
                         request |-> r, result |-> out.result]
    /\ UNCHANGED <<pubVars, menus, roles, role_menus, role_resources, api_keys, accounts,
                   invitation_codes, token_pairs, operation_logs, auxVars>>

AddAccountToRoleEnd(r) ==
    /\ requests[r].pc = "deleted"
    /\ LET out == add_account_to_role_insert(RbacDB, "t1", requests[r].role_id,
                                             requests[r].account_id)
       IN  /\ account_roles' = out.db.account_roles
           /\ requests' = [requests EXCEPT ![r].pc = "done"]
           /\ resp' = [op |-> "add_account_to_role", request |-> r, result |-> out.result]
    /\ UNCHANGED <<pubVars, menus, roles, role_menus, role_resources, api_keys, accounts,
                   invitation_codes, token_pairs, operation_logs, auxVars>>

\* Two roles of tenant t1 and one of t2; account a1 holds r1.
AddAccountToRoleInit ==
    /\ NoPublish /\ NoAux /\ api_keys = <<>>
    /\ menus = <<>> /\ role_menus = {} /\ role_resources = {}
    /\ roles = [r \in {"r1", "r2", "r3"} |->
                   Role(IF r = "r3" THEN "t2" ELSE "t1", [role_key |-> r, role_name |-> r])]
    /\ account_roles = {AccountRole("t1", "a1", "r1"), AccountRole("t2", "a1", "r3")}
    /\ accounts = <<>> /\ invitation_codes = <<>> /\ token_pairs = <<>>
    /\ operation_logs = <<>>
    /\ requests = [r \in 1 .. MaxRequests |->
                      [pc |-> "idle", role_id |-> "none", account_id |-> "none", before |-> {}]]
    /\ resp = [op |-> "none", request |-> 0, result |-> "none"]

AddAccountToRoleNext ==
    \E r \in DOMAIN requests : AddAccountToRoleBegin(r) \/ AddAccountToRoleEnd(r)

AddAccountToRoleSpec == AddAccountToRoleInit /\ [][AddAccountToRoleNext]_vars

\* C23: when add_account_to_role(t, r, a) reports success, a's rows in t are
\* exactly the row for r; when it reports failure or raises, a's rows in t are
\* those the call found; the call changes no row of another account or tenant.
C23_AllOrNothingReplace ==
    [][resp'.op = "add_account_to_role" =>
          LET call == requests'[resp'.request]
              mine == rows_of(account_roles', "t1", call.account_id)
          IN  /\ IF resp'.result = "ok"
                 THEN mine = {AccountRole("t1", call.account_id, call.role_id)}
                 ELSE mine = rows_of(call.before, "t1", call.account_id)
              /\ account_roles' \ mine
                    = account_roles \ rows_of(account_roles, "t1", call.account_id)]_vars

----------------------------------------------------------------------------
(* RoleService.update_resource_authorization on two resource types         *)

ResourceAuthorizationInit ==
    /\ NoPublish /\ NoExt /\ NoAux /\ api_keys = <<>>
    /\ menus = <<>> /\ account_roles = {} /\ role_menus = {}
    /\ roles = [r \in {"r1"} |-> Role("t1", [role_key |-> r, role_name |-> r])]
    /\ role_resources = {}
    /\ resp = [op |-> "none", tenant_id |-> "none",
               request |-> [role_id |-> "none", resource_type |-> "none",
                            authorized_resource_ids |-> <<>>],
               result |-> "none"]

\* ResourceAuthorizationApi.post for a role that is stored (r1) or not (r9).
ResourceAuthorization ==
    \E tenant_id \in Tenants, role_id \in {"r1", "r9"}, resource_type \in {"dataset", "model"},
       ids \in {<<>>, <<"d1">>, <<"d2", "d1">>, <<"d1", "d1">>} :
        LET request == [role_id |-> role_id, resource_type |-> resource_type,
                        authorized_resource_ids |-> ids]
            out == update_resource_authorization(RbacDB, tenant_id, request)
        IN  /\ role_resources' = out.db.role_resources
            /\ resp' = [op |-> "update_resource_authorization", tenant_id |-> tenant_id,
                        request |-> request, result |-> out.result]
            /\ UNCHANGED <<pubVars, menus, roles, account_roles, role_menus, api_keys,
                           extVars, auxVars>>

ResourceAuthorizationNext == ResourceAuthorization

ResourceAuthorizationSpec ==
    ResourceAuthorizationInit /\ [][ResourceAuthorizationNext]_vars

\* C24: update_resource_authorization(tenant, role, type, L) either succeeds
\* and leaves exactly one row per id of L for that tenant, role and type, or
\* fails and leaves the table as it was; rows of other roles and of the other
\* resource type do not change in either case.
C24_ReplaceOrKeep ==
    [][resp'.op = "update_resource_authorization" =>
          LET L == resp'.request.authorized_resource_ids
              mine(table) == {rr \in table : /\ rr.tenant_id = resp'.tenant_id
                                             /\ rr.role_id = resp'.request.role_id
                                             /\ rr.resource_type = resp'.request.resource_type}
          IN  /\ role_resources' \ mine(role_resources') = role_resources \ mine(role_resources)
              /\ IF resp'.result = "ok"
                 THEN /\ {rr.resource_id : rr \in mine(role_resources')} = {L[k] : k \in DOMAIN L}
                      /\ Cardinality(mine(role_resources')) = Len(L)
                 ELSE role_resources' = role_resources]_vars

\* A list has just replaced a different one while the role holds rows of the
\* other resource type.
C24_Witness ==
    /\ resp.op = "update_resource_authorization"
    /\ resp.result = "ok"
    /\ resp.request.authorized_resource_ids = <<"d1">>
    /\ \E rr \in role_resources :
          /\ rr.role_id = resp.request.role_id
          /\ rr.tenant_id = resp.tenant_id
          /\ rr.resource_type # resp.request.resource_type
          /\ rr.resource_id = "d2"

----------------------------------------------------------------------------
(* ModelConfigResource.post (controllers/console/app/model_config.py)      *)
(* A tool dict of agent_mode.tools is [key, extra, tool_parameters]: key   *)
(* is provider_id.provider_type.tool_name, extra tells that the dict has   *)
(* more than the three identifying keys, and tool_parameters holds the one *)
(* secret parameter p.  A value is [enc, v]: enc tells ciphertext from     *)
(* plain text, and v = "none" stands for a parameter that is not there.    *)
(* ToolManager and ToolParameterConfigurationManager are not part of the   *)
(* sources and are modelled by what the handler expects of them.           *)

Absent == [enc |-> FALSE, v |-> "none"]

\* ToolParameterConfigurationManager.encrypt_tool_parameters
encrypt_tool_parameters(parameters) ==
    [p \in DOMAIN parameters |->
        IF parameters[p] = Absent THEN Absent ELSE [enc |-> TRUE, v |-> parameters[p].v]]

\* ToolParameterConfigurationManager.decrypt_tool_parameters: a value that is
\* not ciphertext stays as it is.
decrypt_tool_parameters(parameters) ==
    [p \in DOMAIN parameters |-> [enc |-> FALSE, v |-> parameters[p].v]]

\* ToolParameterConfigurationManager.mask_tool_parameters on plain values.
mask_tool_parameters(parameters) ==
    [p \in DOMAIN parameters |->
        IF parameters[p] = Absent THEN Absent
        ELSE [enc |-> FALSE,
              v |-> CASE parameters[p].v = "s1" -> "m1"
                      [] parameters[p].v = "s2" -> "m2"
                      [] OTHER -> "mm"]]

\* ToolManager.get_agent_tool_runtime raises for the tool X.
resolves(key) == key # "X"

\* First loop (lines 62-96): index of the tool of the original config that
\* fills the maps for key, 0 when key is not in the maps.
mapped_tool(original_tools, key) ==
    LET filled == {i \in DOMAIN original_tools :
                      /\ original_tools[i].key = key
                      /\ original_tools[i].extra
                      /\ resolves(key)}
    IN  IF filled = {} THEN 0 ELSE CHOOSE i \in filled : \A j \in filled : j <= i

\* parameter_map[key]
parameter_map(original_tools, key) ==
    decrypt_tool_parameters(original_tools[mapped_tool(original_tools, key)].tool_parameters)

\* Second loop (lines 99-139): the tool dict as it is stored.
reconciled_tool(original_tools, tool) ==
    LET known == mapped_tool(original_tools, tool.key) # 0
        submitted == tool.tool_parameters
        overridden ==
            [p \in DOMAIN submitted |->
                IF submitted[p] # Absent
                   /\ submitted[p] = mask_tool_parameters(parameter_map(original_tools, tool.key))[p]
                THEN parameter_map(original_tools, tool.key)[p]
                ELSE submitted[p]]
    IN  IF ~resolves(tool.key) THEN tool
        ELSE IF submitted.p = Absent THEN tool
        ELSE IF ~known THEN tool
        ELSE [tool EXCEPT !.tool_parameters = encrypt_tool_parameters(overridden)]

\* ModelConfigResource.post for an agent app: agent_mode.tools of the new config.
ModelConfigResource_post(original_tools, new_tools) ==
    [i \in DOMAIN new_tools |-> reconciled_tool(original_tools, new_tools[i])]

\* Requests: one tool, or the tools A and B.
SaveModelConfig ==
    \E new_tools \in
          LET AgentTools == {t \in [key : {"A", "B", "X"}, extra : BOOLEAN,
                                    tool_parameters : [p : {Absent} \cup
                                        [enc : {FALSE}, v : {"s1", "s2", "m1"}]]] :
                                t.tool_parameters.p # Absent => t.extra}
          IN  {<<t>> : t \in AgentTools}
              \cup {<<a, b>> : a \in {t \in AgentTools : t.key = "A"},
                               b \in {t \in AgentTools : t.key = "B"}} :
        /\ agent_mode' = ModelConfigResource_post(agent_mode, new_tools)
        /\ resp' = [op |-> "save", new_tools |-> new_tools, original_tools |-> agent_mode]
        /\ UNCHANGED <<pubVars, rbacVars, api_keys, extVars, change_email_tokens, ssoVars>>

\* The app's config holds tool A with the secret s1, encrypted.
ModelConfigInit ==
    /\ NoPublish /\ NoRbac /\ NoExt /\ NoSso /\ api_keys = <<>>
    /\ change_email_tokens = <<>>
    /\ agent_mode = <<[key |-> "A", extra |-> TRUE,
                       tool_parameters |-> [p |-> [enc |-> TRUE, v |-> "s1"]]]>>
    /\ resp = [op |-> "none", new_tools |-> <<>>, original_tools |-> <<>>]

ModelConfigNext == SaveModelConfig

ModelConfigSpec == ModelConfigInit /\ [][ModelConfigNext]_vars

\* C25: after a save, every tool of the new list whose runtime resolves and
\* that carries parameters is stored with the encryption of the real value
\* stored before for each parameter submitted equal to its mask, and of the
\* submitted value otherwise; this includes tools the previous config lacks.
C25_ParametersStoredEncrypted ==
    [][resp'.op = "save" =>
          \A i \in DOMAIN resp'.new_tools :
              LET tool == resp'.new_tools[i]
                  k == mapped_tool(agent_mode, tool.key)
                  real == IF k = 0 THEN Absent
                          ELSE decrypt_tool_parameters(agent_mode[k].tool_parameters).p
                  masked == IF k = 0 THEN Absent
                            ELSE mask_tool_parameters([p |-> real]).p
                  value == IF masked # Absent /\ tool.tool_parameters.p = masked
                           THEN real ELSE tool.tool_parameters.p
              IN  (resolves(tool.key) /\ tool.tool_parameters.p # Absent)
                      => agent_mode'[i].tool_parameters.p = [enc |-> TRUE, v |-> value.v]]_vars

----------------------------------------------------------------------------
(* SystemNotificationListApi.post and list_notifications_by_account        *)
(* The ARRAY columns account_id and role are kept as the set of their      *)
(* elements: ARRAY.contains(list) renders as  column @> list,  which holds *)
(* when every element of the list is in the column.                        *)

array_contains(column, list) == \A k \in DOMAIN list : list[k] \in column

\* The rows the statement selects, by id: where, then offset and limit over
\* the rows in table order.
list_notifications_by_account(table, account_id, role, msg_type, is_deal, limit, offset) ==
    LET selected(i) ==
            /\ IF role # <<>>
               THEN \/ array_contains(table[i].account_id, account_id)
                    \/ array_contains(table[i].role, role)
               ELSE array_contains(table[i].account_id, account_id)
            /\ is_deal.given => table[i].is_deal = is_deal.value
            /\ msg_type.given => table[i].msg_type \in msg_type.values
        position(i) == Cardinality({j \in 1 .. i : selected(j)})
    IN  {i \in DOMAIN table :
            selected(i) /\ position(i) > offset /\ position(i) <= offset + limit}

\* The handler: role arrives as a list of names or of {id: name} objects.
SystemNotificationListApi_post(table, current_user, args) ==
    LET page   == IF args.page > 1 THEN args.page ELSE 1
        limit  == IF args.limit > 999 THEN 999 ELSE IF args.limit < 1 THEN 1 ELSE args.limit
        offset == (page - 1) * limit
        role   == [k \in DOMAIN args.role |-> args.role[k].id]
    IN  list_notifications_by_account(table, <<current_user>>, role, args.msg_type,
                                      args.is_deal, limit, offset)

ListNotifications ==
    \E current_user \in {"u1", "u2", "u3"},
       role \in {<<>>, <<"admin">>, <<"admin", "editor">>, <<"editor", "owner">>, <<"editor">>},
       msg_type \in {[given |-> FALSE, values |-> {}], [given |-> TRUE, values |-> {2}],
                     [given |-> TRUE, values |-> {2, 3}]},
       is_deal \in {[given |-> FALSE, value |-> FALSE], [given |-> TRUE, value |-> FALSE],
                    [given |-> TRUE, value |-> TRUE]} :
        LET args == [page |-> 1, limit |-> 999, role |-> [k \in DOMAIN role |-> [id |-> role[k]]],
                     msg_type |-> msg_type, is_deal |-> is_deal]
        IN  /\ resp' = [op |-> "list", current_user |-> current_user, role |-> role,
                        msg_type |-> msg_type, is_deal |-> is_deal,
                        out |-> SystemNotificationListApi_post(system_notification,
                                                               current_user, args)]
            /\ UNCHANGED <<pubVars, rbacVars, api_keys, extVars, auxVars>>

\* An approval request to admins and owners, its result to the applicant u1,
\* a handled request, and a system message to editors.
NotificationInit ==
    /\ NoRbac /\ NoExt /\ NoAux /\ api_keys = <<>>
    /\ publish_application = <<>> /\ publish_application_history = <<>>
    /\ publish_workflows = <<>> /\ publish_app_model_configs = <<>>
    /\ workflows = <<>> /\ app_model_configs = <<>>
    /\ system_notification =
         <<[account_id |-> {}, role |-> {"admin", "owner"}, msg_type |-> 2, is_deal |-> FALSE],
           [account_id |-> {"u1"}, role |-> {}, msg_type |-> 3, is_deal |-> FALSE],
           [account_id |-> {}, role |-> {"admin", "owner"}, msg_type |-> 2, is_deal |-> TRUE],
           [account_id |-> {"u2"}, role |-> {"editor"}, msg_type |-> 1, is_deal |-> FALSE]>>
    /\ resp = [op |-> "none"]

NotificationNext == ListNotifications

NotificationSpec == NotificationInit /\ [][NotificationNext]_vars

\* C26: the list returns a notification exactly when the caller's account id
\* is in its account_id array or at least one supplied role is in its role
\* array, and it passes the msg_type and is_deal filters; a role list that
\* overlaps the role array only in part still matches.
C26_MatchesAnyRole ==
    [][resp'.op = "list" =>
          resp'.out =
              {i \in DOMAIN system_notification :
                  /\ \/ resp'.current_user \in system_notification[i].account_id
                     \/ \E k \in DOMAIN resp'.role :
                           resp'.role[k] \in system_notification[i].role
                  /\ resp'.is_deal.given
                        => system_notification[i].is_deal = resp'.is_deal.value
                  /\ resp'.msg_type.given
                        => system_notification[i].msg_type \in resp'.msg_type.values}]_vars

----------------------------------------------------------------------------
(* SSO user sync: controllers/console/workspace/sso.py                     *)
(* accounts and tenants are sequences, a row's id is its index; an item is *)
(* [email, name, status, tenant_name, role], set_current left to its       *)
(* default.  language, theme and timezone are copied the way name is.      *)

is_valid_role(role) == role \in {"owner", "admin", "editor", "normal", "dataset_operator"}

AccountStatus == {"pending", "uninitialized", "active", "banned", "closed"}

SsoDB == [accounts |-> accounts, tenants |-> tenants, joins |-> tenant_account_joins]

TenantAccountJoin(tenant_id, account_id, role, current) ==
    [tenant_id |-> tenant_id, account_id |-> account_id, role |-> role, current |-> current]

\* query(Account).filter_by(email=email).first(): the id, 0 for None.
account_by_email(db, email) ==
    IF \E i \in DOMAIN db.accounts : db.accounts[i].email = email
    THEN CHOOSE i \in DOMAIN db.accounts : db.accounts[i].email = email
    ELSE 0

\* The session after the account was updated in place or added.
put_account(db, item) ==
    LET id  == account_by_email(db, item.email)
        row == [email |-> item.email, name |-> item.name, status |-> item.status]
    IN  IF id # 0 THEN [db EXCEPT !.accounts[id] = row]
        ELSE [db EXCEPT !.accounts = Append(@, row)]

\* The session after the tenant of that name was looked up or added and flushed.
put_tenant(db, tenant_name) ==
    IF \E t \in DOMAIN db.tenants : db.tenants[t] = tenant_name THEN db
    ELSE [db EXCEPT !.tenants = Append(@, tenant_name)]

tenant_by_name(db, tenant_name) == CHOOSE t \in DOMAIN db.tenants : db.tenants[t] = tenant_name

\* SSOSyncUserApi.post: a fail answer returns before the commit.
SSOSyncUserApi_post(db, item) ==
    LET created   == account_by_email(db, item.email) = 0
        with_acc  == put_account(db, item)
        account   == account_by_email(with_acc, item.email)
        with_ten  == put_tenant(with_acc, item.tenant_name)
        tenant    == tenant_by_name(with_ten, item.tenant_name)
        held      == {j \in with_ten.joins : j.tenant_id = tenant /\ j.account_id = account}
        \* a new membership is added without role: the column default applies
        joined    == IF held = {}
                     THEN with_ten.joins \cup {TenantAccountJoin(tenant, account, "editor", TRUE)}
                     ELSE (with_ten.joins \ held)
                          \cup {TenantAccountJoin(tenant, account, item.role, TRUE)}
    IN  IF item.status \notin AccountStatus
        THEN [db |-> db, result |-> "fail", created |-> FALSE]
        ELSE IF item.tenant_name = ""
        THEN [db |-> with_acc, result |-> "success", created |-> created]
        ELSE IF ~is_valid_role(item.role)
        THEN [db |-> db, result |-> "fail", created |-> FALSE]
        ELSE [db |-> [with_ten EXCEPT !.joins = joined], result |-> "success",
              created |-> created]

\* One pass of the loop of SSOBatchSyncUsersApi.post: the session, the entry
\* appended to results, and the counters' increments.
batch_item(db, item) ==
    LET created   == account_by_email(db, item.email) = 0
        with_acc  == put_account(db, item)
        account   == account_by_email(with_acc, item.email)
        with_ten  == put_tenant(with_acc, item.tenant_name)
        tenant    == tenant_by_name(with_ten, item.tenant_name)
        held      == {j \in with_ten.joins : j.tenant_id = tenant /\ j.account_id = account}
        counted   == [created |-> IF created THEN 1 ELSE 0, updated |-> IF created THEN 0 ELSE 1]
    IN  IF item.email = ""
        THEN [db |-> db, result |-> "fail", created |-> 0, updated |-> 0]
        ELSE IF item.status \notin AccountStatus
        THEN [db |-> db, result |-> "fail", created |-> 0, updated |-> 0]
        ELSE IF item.tenant_name = ""
        THEN [db |-> with_acc, result |-> "success"] @@ counted
        \* continue: the account stays in the session
        ELSE IF ~is_valid_role(item.role)
        THEN [db |-> with_acc, result |-> "fail"] @@ counted
        \* query(Tenant, TenantAccountJoin) without a join condition pairs the
        \* membership with every tenant: one_or_none() raises for two or more
        \* pairs and returns a Row, whose attributes cannot be set, for one
        ELSE IF held # {}
        THEN [db |-> with_ten, result |-> "fail"] @@ counted
        ELSE [db |-> [with_ten EXCEPT !.joins =
                         @ \cup {TenantAccountJoin(tenant, account, item.role, TRUE)}],
              result |-> "success"] @@ counted

RECURSIVE batch_loop(_, _)
\* The loop from the state st = [db, details, created_count, updated_count].
batch_loop(st, users) ==
    IF users = <<>> THEN st
    ELSE LET out == batch_item(st.db, Head(users))
         IN  batch_loop([db |-> out.db,
                         details |-> Append(st.details, out.result),
                         created_count |-> st.created_count + out.created,
                         updated_count |-> st.updated_count + out.updated],
                        Tail(users))

\* SSOBatchSyncUsersApi.post for a non-empty list: the loop, then one commit.
SSOBatchSyncUsersApi_post(db, users) ==
    batch_loop([db |-> db, details |-> <<>>, created_count |-> 0, updated_count |-> 0], users)

RECURSIVE single_sync_each(_, _)
\* One SSOSyncUserApi.post call per item, in order.
single_sync_each(st, users) ==
    IF users = <<>> THEN st
    ELSE LET out == SSOSyncUserApi_post(st.db, Head(users))
         IN  single_sync_each(
                 [db |-> out.db,
                  details |-> Append(st.details, out.result),
                  created_count |-> st.created_count
                      + (IF out.result = "success" /\ out.created THEN 1 ELSE 0),
                  updated_count |-> st.updated_count
                      + (IF out.result = "success" /\ ~out.created THEN 1 ELSE 0)],
                 Tail(users))

InstallSso(db) ==
    /\ accounts' = db.accounts
    /\ tenants' = db.tenants
    /\ tenant_account_joins' = db.joins
    /\ UNCHANGED <<pubVars, rbacVars, api_keys, invitation_codes, requests, token_pairs,
                   operation_logs, change_email_tokens, agent_mode, loaded_account>>

SyncItems ==
    [email : {"e1", "e2"}, name : {"n1"}, status : {"active", "retired"},
     tenant_name : {"", "T1"}, role : {"normal", "admin", "root"}]

SyncUser ==
    \E item \in SyncItems :
        LET out == SSOSyncUserApi_post(SsoDB, item)
        IN  /\ InstallSso(out.db)
            /\ resp' = [op |-> "sync", users |-> <<item>>, details |-> <<out.result>>,
                        created_count |-> 0, updated_count |-> 0]

BatchSyncUsers ==
    \E users \in {<<item>> : item \in SyncItems}
                 \cup {<<a, b>> : a \in {i \in SyncItems : i.email = "e1"},
                                  b \in {i \in SyncItems : i.email = "e2" /\ i.tenant_name = "T1"}} :
        LET out == SSOBatchSyncUsersApi_post(SsoDB, users)
        IN  /\ InstallSso(out.db)
            /\ resp' = [op |-> "batch", users |-> users, details |-> out.details,
                        created_count |-> out.created_count,
                        updated_count |-> out.updated_count]

\* One account, no tenant yet.
SsoInit ==
    /\ NoPublish /\ NoRbac /\ api_keys = <<>>
    /\ accounts = <<[email |-> "e1", name |-> "n0", status |-> "active"]>>
    /\ tenants = <<>> /\ tenant_account_joins = {} /\ loaded_account = <<>>
    /\ invitation_codes = <<>> /\ requests = <<>> /\ token_pairs = <<>>
    /\ operation_logs = <<>> /\ change_email_tokens = <<>> /\ agent_mode = <<>>
    /\ resp = [op |-> "none", users |-> <<>>, details |-> <<>>,
               created_count |-> 0, updated_count |-> 0]

SsoNext == SyncUser \/ BatchSyncUsers

SsoSpec == SsoInit /\ [][SsoNext]_vars

\* C27: a batch sync gives one result entry per item, and leaves the Account,
\* Tenant and TenantAccountJoin rows, the per-item results and the created /
\* updated counts that one single-sync call per item, in order, would give.
C27_BatchIsSingleEach ==
    [][resp'.op = "batch" =>
          LET each == single_sync_each([db |-> SsoDB, details |-> <<>>,
                                        created_count |-> 0, updated_count |-> 0],
                                       resp'.users)
          IN  /\ Len(resp'.details) = Len(resp'.users)
              /\ resp'.details = each.details
              /\ accounts' = each.db.accounts
              /\ tenants' = each.db.tenants
              /\ tenant_account_joins' = each.db.joins
              /\ resp'.created_count = each.created_count
              /\ resp'.updated_count = each.updated_count]_vars

----------------------------------------------------------------------------
(* MenuService.update_menu from several requests at once                   *)
(* Each request has its own session: it reads the rows and runs the checks *)
(* (lines 43-66), then its commit writes the changed columns of its row    *)
(* (lines 68-74).  No row is locked and no check runs at the commit.       *)

\* The UPDATE the commit issues for the menu the request loaded.
update_menu_commit(table, menu_id, menu_data) ==
    [table EXCEPT ![menu_id] =
        [f \in DOMAIN @ |-> IF f \in DOMAIN menu_data THEN menu_data[f] ELSE @[f]]]

UpdateMenuCheck(r) ==
    /\ requests[r].pc = "idle"
    /\ \E menu_id \in DOMAIN menus, parent_id \in DOMAIN menus :
         LET out == update_menu(RbacDB, menu_id, [parent_id |-> parent_id])
         IN  /\ requests' = [requests EXCEPT ![r] =
                    [pc |-> IF out.result = "raise" THEN "done" ELSE "checked",
                     menu_id |-> menu_id, parent_id |-> parent_id]]
             /\ resp' = [op |-> "update_menu", request |-> r,
                         result |-> IF out.result = "raise" THEN "raise" ELSE "checked"]
    /\ UNCHANGED <<pubVars, rbacVars, api_keys, accounts, invitation_codes, token_pairs,
                   operation_logs, auxVars>>

UpdateMenuCommit(r) ==
    /\ requests[r].pc = "checked"
    /\ menus' = update_menu_commit(menus, requests[r].menu_id,
                                   [parent_id |-> requests[r].parent_id])
    /\ requests' = [requests EXCEPT ![r].pc = "done"]
    /\ resp' = [op |-> "update_menu", request |-> r, result |-> "ok"]
    /\ UNCHANGED <<pubVars, roles, account_roles, role_menus, role_resources, api_keys,
                   accounts, invitation_codes, token_pairs, operation_logs, auxVars>>

\* Two top-level menus.
ConcurrentMenuInit ==
    /\ NoPublish /\ NoAux /\ api_keys = <<>>
    /\ menus = [id \in {1, 2} |->
                   [menu_key |-> id, menu_name |-> id, parent_id |-> None,
                    sort_order |-> 0, is_active |-> TRUE]]
    /\ roles = <<>> /\ account_roles = {} /\ role_menus = {} /\ role_resources = {}
    /\ accounts = <<>> /\ invitation_codes = <<>> /\ token_pairs = <<>>
    /\ operation_logs = <<>>
    /\ requests = [r \in 1 .. MaxRequests |-> [pc |-> "idle", menu_id |-> None,
                                                parent_id |-> None]]
    /\ resp = [op |-> "none", request |-> 0, result |-> "none"]

ConcurrentMenuNext ==
    \E r \in DOMAIN requests : UpdateMenuCheck(r) \/ UpdateMenuCommit(r)

ConcurrentMenuSpec == ConcurrentMenuInit /\ [][ConcurrentMenuNext]_vars

\* C28: the parent_id graph has no cycle whatever way update_menu calls of
\* different requests interleave: of two moves that would close a cycle
\* together, at most one commits.
C28_AcyclicUnderInterleaving ==
    \A id \in DOMAIN menus : id \notin ProperAncestors(menus, id)

----------------------------------------------------------------------------
(* Snapshots per application                                               *)

\* C29: after any sequence of submit and sys-approve calls every application
\* has given rise to at most one snapshot row (PublishWorkflow or
\* PublishAppModelConfig) and only COMPLETED applications have one: the
\* snapshot rows are no more than the COMPLETED applications.
C29_OneSnapshotPerCompleted ==
    Len(publish_workflows) + Len(publish_app_model_configs)
        <= Cardinality({i \in DOMAIN publish_application :
                           publish_application[i].status = COMPLETED})

----------------------------------------------------------------------------
(* Account.current_tenant and Account.set_tenant_id (models/account.py)    *)
(* loaded_account is the object after init_on_load: role and               *)
(* _current_tenant, None being "none" and 0.  The account has id 1.        *)

\* The membership row of the account in the tenant, if any.
tenant_join(joins, tenant_id, account_id) ==
    {j \in joins : j.tenant_id = tenant_id /\ j.account_id = account_id}

\* The current_tenant setter.
set_current_tenant(account, joins, tenant_id) ==
    LET found == tenant_join(joins, tenant_id, 1)
    IN  IF found # {}
        THEN [role |-> (CHOOSE j \in found : TRUE).role, current_tenant |-> tenant_id]
        ELSE [account EXCEPT !.current_tenant = 0]

set_tenant_id(account, joins, tenant_id) ==
    LET found == tenant_join(joins, tenant_id, 1)
    IN  IF found = {} \/ tenant_id \notin DOMAIN tenants
        THEN account
        ELSE [role |-> (CHOOSE j \in found : TRUE).role, current_tenant |-> tenant_id]

SetCurrentTenant ==
    \E tenant_id \in DOMAIN tenants :
        /\ loaded_account' = set_current_tenant(loaded_account, tenant_account_joins, tenant_id)
        /\ resp' = [op |-> "current_tenant", tenant_id |-> tenant_id]
        /\ UNCHANGED <<pubVars, rbacVars, api_keys, extVars, change_email_tokens, agent_mode,
                       tenants, tenant_account_joins>>

SetTenantId ==
    \E tenant_id \in DOMAIN tenants \cup {Len(tenants) + 1} :
        /\ loaded_account' = set_tenant_id(loaded_account, tenant_account_joins, tenant_id)
        /\ resp' = [op |-> "set_tenant_id", tenant_id |-> tenant_id]
        /\ UNCHANGED <<pubVars, rbacVars, api_keys, extVars, change_email_tokens, agent_mode,
                       tenants, tenant_account_joins>>

\* Three tenants; the account is a member of any of them, in any role.
LoadedAccountInit ==
    /\ NoPublish /\ NoRbac /\ NoExt /\ api_keys = <<>>
    /\ change_email_tokens = <<>> /\ agent_mode = <<>>
    /\ tenants = <<"T1", "T2", "T3">>
    /\ \E member \in [DOMAIN tenants -> {"none", "owner", "editor", "normal"}] :
         tenant_account_joins =
             {TenantAccountJoin(t, 1, member[t], FALSE) :
                 t \in {x \in DOMAIN tenants : member[x] # "none"}}
    /\ loaded_account = [role |-> "none", current_tenant |-> 0]
    /\ resp = [op |-> "none", tenant_id |-> 0]

LoadedAccountNext == SetCurrentTenant \/ SetTenantId

LoadedAccountSpec == LoadedAccountInit /\ [][LoadedAccountNext]_vars

\* C30: whenever the account's role is set, its current tenant is set too and
\* the role is the one of the account's membership row for that tenant; no
\* role of an earlier tenant stays after a switch to a tenant the account is
\* not a member of.
C30_RoleBelongsToCurrentTenant ==
    loaded_account.role # "none"
        => /\ loaded_account.current_tenant # 0
           /\ \E j \in tenant_join(tenant_account_joins, loaded_account.current_tenant, 1) :
                 j.role = loaded_account.role

====
